---- MODULE Spec2Model ----
(***************************************************************************)
(* Batch classification pipeline of llm-match-foodstyles:                  *)
(*   lib/openai.ts   (src/lib/types.ts)      runLlmMatchForRow / Batch      *)
(*   lib/sheets.ts   (src/unnamed/part_006)  readDatasetRows / write / log  *)
(*   app/api/start/route.ts                  POST (one chunk invocation)    *)
(*   app/components/App.tsx                  handleRun (the run driver)     *)
(*                                                                         *)
(* Text is modelled as a sequence of tokens (strings); "s.includes(m)" is  *)
(* "m is one of the tokens of s" and "s starts with m" is "Head(s) = m".   *)
(***************************************************************************)
EXTENDS Integers, Sequences, FiniteSets, TLC

----------------------------------------------------------------------------
(* Bounds of the model *)

\* data rows below the header of the dataset tab (small datasets)
MaxRows == 3
\* largest `parallel` a caller passes
MaxParallel == 2
\* /api/start invocations the server may hold at once (request slots)
NumSlots == 2
\* invocations allowed to fail or crash in one behaviour
MaxFaults == 1
\* direct /api/start calls in one behaviour
MaxCalls == 2
\* handleRun submissions in one behaviour
MaxRuns == 2

----------------------------------------------------------------------------
(* Values *)

Absent == "<absent>"
Undefined == "<undefined>"

Verdicts == {"SAME", "DIFFERENT", "UNSURE"}

\* an error: status (0 when the error carries none) and message tokens
NoErr == [status |-> 0, message |-> <<>>]
E429 == [status |-> 429, message |-> <<"429 Rate limit reached">>]
E503 == [status |-> 503, message |-> <<"503 Service unavailable">>]
ETimeout == [status |-> 0, message |-> <<"connect ", "ETIMEDOUT", " 10.0.0.1:443">>]
EReset == [status |-> 0, message |-> <<"read ", "ECONNRESET">>]
E400 == [status |-> 400, message |-> <<"400 Unsupported parameter">>]
E600 == [status |-> 600, message |-> <<"unexpected status">>]

\* A model reply.  text: the raw reply (one token); fence: wrapped in
\* code fences; json: JSON.parse accepts the cleaned text as an object.  verdict,
\* score, notes: the three fields as they are written in the text (Absent /
\* <<>> when the text does not have them); score "q1" is the string "1".
NoContent ==
    [text |-> "", fence |-> FALSE, json |-> FALSE, verdict |-> Absent,
     score |-> Absent, notes |-> <<>>]
COkSame ==
    [text |-> "{SAME,1,c87}", fence |-> FALSE, json |-> TRUE, verdict |-> "SAME",
     score |-> "1", notes |-> <<"confidence=0.87;", " same name and street">>]
COkDiff ==
    [text |-> "{DIFFERENT,0,c90}", fence |-> FALSE, json |-> TRUE,
     verdict |-> "DIFFERENT", score |-> "0",
     notes |-> <<"confidence=0.90;", " different towns">>]
COkUnsureFenced ==
    [text |-> "(fenced){UNSURE,2,plain}", fence |-> TRUE, json |-> TRUE,
     verdict |-> "UNSURE", score |-> "2", notes |-> <<"hard to tell">>]
CSameZero ==
    [text |-> "{SAME,0,c80}", fence |-> FALSE, json |-> TRUE, verdict |-> "SAME",
     score |-> "0", notes |-> <<"confidence=0.80;", " same place">>]
CJsonLower ==
    [text |-> "{same,1,c75}", fence |-> FALSE, json |-> TRUE, verdict |-> "same",
     score |-> "1", notes |-> <<"confidence=0.75;", " same shop">>]
CJsonNoNotes ==
    [text |-> "{SAME,1}", fence |-> FALSE, json |-> TRUE, verdict |-> "SAME",
     score |-> "1", notes |-> <<>>]
CJsonQuotedScore ==
    [text |-> "{DIFFERENT,q1,c60}", fence |-> FALSE, json |-> TRUE,
     verdict |-> "DIFFERENT", score |-> "q1",
     notes |-> <<"confidence=0.60;", " other chain">>]
CTextHeur ==
    [text |-> "Sure! verdict:different score:0 notes:c70", fence |-> FALSE,
     json |-> FALSE, verdict |-> "different", score |-> "0",
     notes |-> <<"confidence=0.70;", " other street">>]
CTextHeurOne ==
    [text |-> "Answer verdict:UNSURE score:1 notes:c55", fence |-> FALSE,
     json |-> FALSE, verdict |-> "UNSURE", score |-> "1",
     notes |-> <<"confidence=0.55;", " unclear">>]
CTextPartial ==
    [text |-> "verdict:SAME only", fence |-> FALSE, json |-> FALSE,
     verdict |-> "SAME", score |-> Absent, notes |-> <<>>]
CTextNone ==
    [text |-> "I cannot help with that", fence |-> FALSE, json |-> FALSE,
     verdict |-> Absent, score |-> Absent, notes |-> <<>>]

\* what one API call of the classification service can do
Reply(c) == [kind |-> "content", c |-> c, e |-> NoErr]
Empty == [kind |-> "empty", c |-> NoContent, e |-> NoErr]
Raise(e) == [kind |-> "error", c |-> NoContent, e |-> e]

\* The behaviours of the service the model explores: in one behaviour every
\* API call draws its outcome from one of these sets.
Profiles ==
    { {Reply(COkSame), Reply(CSameZero)},
      {Reply(COkDiff), Reply(CTextNone)},
      {Reply(CJsonLower), Reply(CTextHeur)},
      {Reply(COkUnsureFenced), Empty},
      {Reply(CTextHeurOne), Raise(E400)},
      {Reply(CJsonNoNotes), Raise(E429)},
      {Reply(CTextPartial), Raise(ETimeout)},
      {Reply(CJsonQuotedScore), Raise(E600)},
      {Raise(E429), Raise(E400)},
      {Raise(E503), Raise(EReset)} }

\* the service answers every call with the same well-formed reply
SteadyProfiles == { {Reply(COkSame)}, {Reply(COkDiff)}, {Reply(CTextHeurOne)} }

----------------------------------------------------------------------------
(* lib/openai.ts: pure helpers *)

Includes(message, marker) == \E j \in 1..Len(message) : message[j] = marker

Max(a, b) == IF a >= b THEN a ELSE b
Min(a, b) == IF a <= b THEN a ELSE b

\* Number(raw) for the raw config strings of the model: finite or not, and
\* the value in halves (so that "1.5" is 3 halves)
NumberOf(raw) ==
    CASE raw = "0" -> [finite |-> TRUE, halves |-> 0]
      [] raw = "0.5" -> [finite |-> TRUE, halves |-> 1]
      [] raw = "1" -> [finite |-> TRUE, halves |-> 2]
      [] raw = "1.5" -> [finite |-> TRUE, halves |-> 3]
      [] raw = "2" -> [finite |-> TRUE, halves |-> 4]
      [] raw = "3" -> [finite |-> TRUE, halves |-> 6]
      [] raw = "7" -> [finite |-> TRUE, halves |-> 14]
      [] raw = "50" -> [finite |-> TRUE, halves |-> 100]
      [] raw = "-1" -> [finite |-> TRUE, halves |-> -2]
      [] raw = " 2 " -> [finite |-> TRUE, halves |-> 4]
      [] OTHER -> [finite |-> FALSE, halves |-> 0]

\* getNumericConfig(config, key, fallback, min, max), in halves
getNumericConfigUnclamped(config, key, fallback, min, max) ==
    LET raw == config[key]
        n == NumberOf(raw)
    IN  IF raw = Undefined \/ raw = "" THEN 2 * fallback
        ELSE IF ~n.finite THEN 2 * fallback
        ELSE Max(2 * min, n.halves)

getNumericConfig(config, key, fallback, min, max) ==
    LET raw == config[key]
        n == NumberOf(raw)
    IN  IF raw = Undefined \/ raw = "" THEN 2 * fallback
        ELSE IF ~n.finite THEN 2 * fallback
        ELSE Min(2 * max, Max(2 * min, n.halves))

isRetryableError(err) ==
    \/ err.status = 429
    \/ (err.status # 0 /\ err.status >= 500 /\ err.status < 600)
    \/ Includes(err.message, "Empty content from model")
    \/ Includes(err.message, "ETIMEDOUT")
    \/ Includes(err.message, "ECONNRESET")
    \/ Includes(err.message, "ENOTFOUND")

EmptyContentError ==
    [status |-> 0,
     message |-> <<"Empty content from model",
                   " (chat + responses both returned nothing)">>]

\* cleanJsonFromContent: the text without its fences
cleanJsonFromContent(c) == [c EXCEPT !.fence = FALSE]

\* JSON.parse(text) returns (does not throw): fenced text is no JSON
JsonParses(c) == c.json /\ ~c.fence

ToUpperCase(v) ==
    CASE v \in {"same", "SAME"} -> "SAME"
      [] v \in {"different", "DIFFERENT"} -> "DIFFERENT"
      [] v \in {"unsure", "UNSURE"} -> "UNSURE"
      [] OTHER -> v

\* Number("0"|"1"|"2") of a captured score
ScoreNumber(tok) == CASE tok = "0" -> 0 [] tok = "1" -> 1 [] tok = "2" -> 2 [] OTHER -> -1

\* heuristicExtract: the three regexes; each field Absent/-1/<<>> when its
\* regex does not match (the verdict regex is case-insensitive, the score
\* regex wants an unquoted 0, 1 or 2)
heuristicExtract(c) ==
    LET verdictMatch == ToUpperCase(c.verdict) \in Verdicts
        scoreMatch == c.score \in {"0", "1", "2"}
        notesMatch == c.notes # <<>>
    IN  [isNull |-> ~verdictMatch /\ ~scoreMatch /\ ~notesMatch,
         verdict |-> IF verdictMatch THEN ToUpperCase(c.verdict) ELSE Absent,
         match_score |-> IF scoreMatch THEN ScoreNumber(c.score) ELSE -1,
         notes |-> IF notesMatch THEN c.notes ELSE <<>>]

LlmMatchOutput(v, s, n) == [verdict |-> v, match_score |-> s, notes |-> n]

\* the catch block of runLlmMatchForRow
FallbackNoConfidence(message) ==
    LlmMatchOutput("UNSURE", 2, <<"Fallback UNSURE due to error: ">> \o message)

FallbackOutput(message) ==
    LlmMatchOutput("UNSURE", 2,
        <<"confidence=0.50;", " Fallback UNSURE due to error: ">> \o message)

\* the strict branch after JSON.parse succeeded (lines 495-507)
StrictOutputUnchecked(c) == LlmMatchOutput(c.verdict, ScoreNumber(c.score), c.notes)

StrictOutput(c) ==
    IF c.verdict \notin Verdicts \/ c.score \notin {"0", "1", "2"} \/ c.notes = <<>>
    THEN FallbackOutput(<<"Model output missing required fields">>)
    ELSE LlmMatchOutput(c.verdict, ScoreNumber(c.score), c.notes)

\* the catch of JSON.parse (lines 471-493)
HeuristicOutput(raw, cleaned) ==
    LET h == heuristicExtract(cleaned)
    IN  IF ~h.isNull /\ h.verdict # Absent /\ h.match_score # -1 /\ h.notes # <<>>
        THEN LlmMatchOutput(h.verdict, h.match_score, h.notes)
        ELSE FallbackOutput(<<"Model returned non-JSON or badly formatted JSON: ",
                              raw.text>>)

\* runLlmMatchForRow once callModelForJsonWithRetry returned rawContent
ParseOutput(rawContent) ==
    LET cleaned == cleanJsonFromContent(rawContent)
    IN  IF JsonParses(cleaned) THEN StrictOutput(cleaned)
        ELSE HeuristicOutput(rawContent, cleaned)

\* which branch produced the output of a reply
ParsePath(rawContent) ==
    LET cleaned == cleanJsonFromContent(rawContent)
        h == heuristicExtract(cleaned)
    IN  IF JsonParses(cleaned)
        THEN IF cleaned.verdict \notin Verdicts \/ cleaned.score \notin {"0", "1", "2"}
                \/ cleaned.notes = <<>>
             THEN "failed" ELSE "strict"
        ELSE IF ~h.isNull /\ h.verdict # Absent /\ h.match_score # -1 /\ h.notes # <<>>
             THEN "heuristic" ELSE "failed"

----------------------------------------------------------------------------
(* State *)

VARIABLES
    sheet,      \* dataset tab, rows 2.. : sheet[p] is sheet row p + 1, columns N O P
    runLog,     \* the two run-log tabs: tab name -> appended rows
    config,     \* Config tab: key -> raw value (Undefined when the key is missing)
    svc,        \* outcomes the classification service may produce
    stage,      \* per request slot: how far the /api/start invocation is
    body,       \* per slot: request body {limit, parallel, mode}
    cfg,        \* per slot: config snapshot read by getConfig
    pend,       \* per slot: allPendingRows
    rows,       \* per slot: rows given to runLlmMatchBatch
    index,      \* per slot: shared next-row index of the worker pool
    updates,    \* per slot: updates list of runLlmMatchBatch
    wk,         \* per slot: the workers of the pool
    metrics,    \* per slot: BatchRunMetrics
    resp,       \* per slot: the HTTP response
    hr,         \* the browser: state of handleRun
    trace,      \* history, per slot: how each entry of updates was produced
    writes,     \* history: result writes each sheet row has received
    seen,       \* history: processed counts of the successful responses
    budget      \* history: faults, direct calls and runs still allowed

vars ==
    <<sheet, runLog, config, svc, stage, body, cfg, pend, rows, index, updates,
      wk, metrics, resp, hr, trace, writes, seen, budget>>

storeVars == <<sheet, runLog, config>>
batchVars == <<index, updates, wk, trace>>
histVars == <<writes, seen, budget>>

Slots == 1..NumSlots
Workers == 1..MaxParallel

NoLimit == -9
IdleWorker == [pc |-> "idle", i |-> 0, attempt |-> 0, calls |-> 0, err |-> NoErr]
NullAvg == [sum |-> 0, n |-> 0]
NoMetrics ==
    [count_same |-> 0, count_diff |-> 0, count_unsure |-> 0,
     avg_conf_same |-> NullAvg, avg_conf_diff |-> NullAvg,
     avg_conf_unsure |-> NullAvg, duration_ms |-> 0]
NoResp == [status |-> 0]
NoBody == [limit |-> NoLimit, parallel |-> 0, mode |-> "prod"]
IdleClient == [pc |-> "idle", running |-> FALSE, error |-> ""]
\* faults, direct calls and runs used so far; what the form of the UI may hold
NoBudget ==
    [faults |-> 0, calls |-> 0, runs |-> 0, scenario |-> "", limits |-> {},
     parallels |-> {}, modes |-> {}]

----------------------------------------------------------------------------
(* lib/openai.ts: runLlmMatchBatch and its workers *)

DatasetRow(rowIndex) == [rowIndex |-> rowIndex]

\* callModelForJsonWithRetry line 359: MAX_RETRIES, default 1, clamped to [0,3]
MaxRetriesHalves(c) == getNumericConfig(c, "MAX_RETRIES", 1, 0, 3)

\* const i = index++  (line 541): the slot claimed and the counter afterwards
ClaimRepeating(idx) == [i |-> idx, index |-> idx]

Claim(idx) == [i |-> idx, index |-> idx + 1]

\* a worker from "const i = index++" to its first await (or its break)
WorkerAt(i, len) ==
    IF i >= len THEN [IdleWorker EXCEPT !.pc = "done", !.i = i]
    ELSE [pc |-> "chat", i |-> i, attempt |-> 0, calls |-> 1, err |-> NoErr]

\* lines 534 and 555
WorkerCountAll(parallel, len) == Max(1, parallel)

WorkerCount(parallel, len) == Min(Max(1, parallel), IF len = 0 THEN 1 ELSE len)

\* Array.from({length: workerCount}, () => worker()): every worker runs up to
\* its first await, one after the other
RECURSIVE Spawn(_, _, _, _)
Spawn(w, count, idx, len) ==
    IF w > count THEN [ws |-> [v \in Workers |-> IdleWorker], index |-> idx]
    ELSE LET c == Claim(idx)
             rest == Spawn(w + 1, count, c.index, len)
         IN  [ws |-> [rest.ws EXCEPT ![w] = WorkerAt(c.i, len)], index |-> rest.index]

MatchResultUpdate(row, out) ==
    [rowIndex |-> row.rowIndex, match_score |-> out.match_score,
     verdict |-> out.verdict, notes |-> out.notes]

\* runLlmMatchBatch is called: the pool starts
StartBatch(k, rs, parallel) ==
    LET sp == Spawn(1, WorkerCount(parallel, Len(rs)), 0, Len(rs))
    IN  /\ rows' = [rows EXCEPT ![k] = rs]
        /\ index' = [index EXCEPT ![k] = sp.index]
        /\ wk' = [wk EXCEPT ![k] = sp.ws]
        /\ updates' = [updates EXCEPT ![k] = <<>>]
        /\ trace' = [trace EXCEPT ![k] = <<>>]

\* runLlmMatchForRow returned `out` to worker w: push it, claim the next row
FinishRow(k, w, out, path, err) ==
    LET me == wk[k][w]
        c == Claim(index[k])
    IN  /\ updates' = [updates EXCEPT ![k] =
                          Append(@, MatchResultUpdate(rows[k][me.i + 1], out))]
        /\ trace' = [trace EXCEPT ![k] =
                        Append(@, [path |-> path, calls |-> me.calls, err |-> err,
                                   fails |-> IF path = "error" THEN me.attempt + 1
                                             ELSE me.attempt])]
        /\ index' = [index EXCEPT ![k] = c.index]
        /\ wk' = [wk EXCEPT ![k][w] = WorkerAt(c.i, Len(rows[k]))]

\* the budget test of line 376, after attempt += 1
GivesUpAlwaysRetry(err, attempt, maxRetriesHalves) == 2 * attempt > maxRetriesHalves

GivesUpOffByOne(err, attempt, maxRetriesHalves) ==
    ~isRetryableError(err) \/ 2 * attempt >= maxRetriesHalves

GivesUp(err, attempt, maxRetriesHalves) ==
    ~isRetryableError(err) \/ 2 * attempt > maxRetriesHalves

\* callModelForJsonOnce threw err: the catch of callModelForJsonWithRetry and,
\* when it rethrows, the catch of runLlmMatchForRow
HandleError(k, w, err) ==
    LET attempt == wk[k][w].attempt + 1
    IN  IF GivesUp(err, attempt, MaxRetriesHalves(cfg[k]))
        THEN FinishRow(k, w, FallbackOutput(err.message), "error", err)
        ELSE /\ wk' = [wk EXCEPT ![k][w] =
                          [@ EXCEPT !.pc = "sleep", !.attempt = attempt, !.err = err]]
             /\ UNCHANGED <<index, updates, trace>>

\* the Chat Completions call of worker w resolves or rejects
ChatReturns(k, w) ==
    /\ stage[k] = "batch"
    /\ wk[k][w].pc = "chat"
    /\ \E o \in svc :
          IF o.kind = "content"
          THEN FinishRow(k, w, ParseOutput(o.c), ParsePath(o.c), NoErr)
          ELSE /\ wk' = [wk EXCEPT ![k][w].pc = "responses"]
               /\ UNCHANGED <<index, updates, trace>>
    /\ UNCHANGED <<storeVars, svc, stage, body, cfg, pend, rows, metrics, resp, hr,
                   histVars>>

\* the Responses API call of worker w resolves or rejects
ResponsesReturns(k, w) ==
    /\ stage[k] = "batch"
    /\ wk[k][w].pc = "responses"
    /\ \E o \in svc :
          CASE o.kind = "content" ->
                  FinishRow(k, w, ParseOutput(o.c), ParsePath(o.c), NoErr)
            [] o.kind = "empty" -> HandleError(k, w, EmptyContentError)
            [] OTHER -> HandleError(k, w, o.e)
    /\ UNCHANGED <<storeVars, svc, stage, body, cfg, pend, rows, metrics, resp, hr,
                   histVars>>

\* the backoff sleep of worker w ends: the loop calls callModelForJsonOnce again
SleepDone(k, w) ==
    /\ stage[k] = "batch"
    /\ wk[k][w].pc = "sleep"
    /\ wk' = [wk EXCEPT ![k][w] = [@ EXCEPT !.pc = "chat", !.calls = @ + 1]]
    /\ UNCHANGED <<storeVars, svc, stage, body, cfg, pend, rows, index, updates,
                   trace, metrics, resp, hr, histVars>>

PoolDone(k) == \A w \in Workers : wk[k][w].pc \in {"idle", "done"}

\* parseConfidence: the number after the first "confidence=" of the notes, in
\* hundredths; -1 for null
ConfidenceOfToken(tok) ==
    CASE tok = "confidence=0.50;" -> 50
      [] tok = "confidence=0.55;" -> 55
      [] tok = "confidence=0.60;" -> 60
      [] tok = "confidence=0.70;" -> 70
      [] tok = "confidence=0.75;" -> 75
      [] tok = "confidence=0.80;" -> 80
      [] tok = "confidence=0.87;" -> 87
      [] tok = "confidence=0.90;" -> 90
      [] OTHER -> -1

RECURSIVE parseConfidence(_)
parseConfidence(notes) ==
    IF notes = <<>> THEN -1
    ELSE IF ConfidenceOfToken(Head(notes)) # -1 THEN ConfidenceOfToken(Head(notes))
    ELSE parseConfidence(Tail(notes))

\* lines 559-592: counts and confidence sums of one verdict bucket
RECURSIVE WeightedSum(_, _)
WeightedSum(values, times) ==
    IF values = {} THEN 0
    ELSE LET v == CHOOSE x \in values : TRUE
         IN  v * times[v] + WeightedSum(values \ {v}, times)

Bucket(us, verdict) ==
    LET js == {j \in 1..Len(us) : us[j].verdict = verdict}
        conf(j) == parseConfidence(us[j].notes)
        withConf == {j \in js : conf(j) # -1}
        values == {conf(j) : j \in withConf}
        times == [v \in values |-> Cardinality({j \in withConf : conf(j) = v})]
    IN  [count |-> Cardinality(js), sum |-> WeightedSum(values, times),
         n |-> Cardinality(withConf)]

\* sum / n, or null: kept as the pair, n = 0 standing for null
AverageOverCount(b) == IF b.count # 0 THEN [sum |-> b.sum, n |-> b.count] ELSE NullAvg

Average(b) == IF b.n # 0 THEN [sum |-> b.sum, n |-> b.n] ELSE NullAvg

\* Date.now() - start, in ms
Durations == {40}

\* lines 594-602
BatchRunMetrics(us, duration) ==
    LET same == Bucket(us, "SAME")
        diff == Bucket(us, "DIFFERENT")
        unsure == Bucket(us, "UNSURE")
    IN  [count_same |-> same.count, count_diff |-> diff.count,
         count_unsure |-> unsure.count,
         avg_conf_same |-> Average(same), avg_conf_diff |-> Average(diff),
         avg_conf_unsure |-> Average(unsure), duration_ms |-> duration]

\* runLlmMatchBatch called on its own (stage "call"): the pool starts
RunLlmMatchBatchCall(k) ==
    /\ stage[k] = "call"
    /\ StartBatch(k, rows[k], body[k].parallel)
    /\ stage' = [stage EXCEPT ![k] = "batch"]
    /\ UNCHANGED <<storeVars, svc, body, cfg, pend, metrics, resp, hr, histVars>>

\* Promise.all resolved: the metrics are computed and the batch returns
RunLlmMatchBatchReturn(k) ==
    /\ stage[k] = "batch"
    /\ PoolDone(k)
    /\ \E d \in Durations :
          metrics' = [metrics EXCEPT ![k] = BatchRunMetrics(updates[k], d)]
    /\ stage' = [stage EXCEPT ![k] = "returned"]
    /\ UNCHANGED <<storeVars, svc, body, cfg, pend, rows, batchVars, resp, hr,
                   histVars>>

----------------------------------------------------------------------------
(* lib/sheets.ts: the dataset tab and the run log *)

EmptyCells == [N |-> "", O |-> "", P |-> <<>>]

\* a number written with valueInputOption RAW reads back as its text
CellOfNumber(n) == CASE n = 0 -> "0" [] n = 1 -> "1" [] n = 2 -> "2" [] OTHER -> "?"

\* values.get leaves out the trailing empty cells of a row: columns N and O
\* of sheet row `cells` as the destructuring of line 114 sees them
ValuesN(cells) ==
    IF cells.N = "" /\ cells.O = "" /\ cells.P = <<>> THEN Undefined ELSE cells.N
ValuesO(cells) ==
    IF cells.O = "" /\ cells.P = <<>> THEN Undefined ELSE cells.O

\* const rowIndex = idx + 2 (line 109), idx counted from 0
RowIndexOffByOne(idx) == idx + 1

RowIndexOfIdx(idx) == idx + 2

\* lines 133-141: the row already carries a result
IsEvaluatedBothOnly(cells) ==
    /\ ValuesN(cells) # Undefined /\ ValuesN(cells) # ""
    /\ ValuesO(cells) # Undefined /\ ValuesO(cells) # ""

IsEvaluated(cells) ==
    LET hasMatchScore == ValuesN(cells) # Undefined /\ ValuesN(cells) # ""
        hasVerdict == ValuesO(cells) # Undefined /\ ValuesO(cells) # ""
    IN  hasMatchScore \/ hasVerdict

\* readDatasetRows: the pending rows, in sheet order
\* (the kept indexes are bound by the set constructor, so they are computed
\* once per read)
readDatasetRows(values) ==
    LET idxs == [i \in 1..Len(values) |-> i - 1]
        RowsAt(kept) == [j \in 1..Len(kept) |-> DatasetRow(RowIndexOfIdx(kept[j]))]
    IN  CHOOSE rs \in {RowsAt(kept) :
                          kept \in {SelectSeq(idxs, LAMBDA idx :
                                                      ~IsEvaluated(values[idx + 1]))}} : TRUE

\* the range N<rowIndex>:P<rowIndex> of one update, as a position of `sheet`
TargetRowBelow(rowIndex) == rowIndex

TargetRow(rowIndex) == rowIndex - 1

\* writeMatchResults: one batchUpdate carrying every update
writeMatchResults(values, us) ==
    [p \in 1..Len(values) |->
        LET js == {j \in 1..Len(us) : TargetRow(us[j].rowIndex) = p}
        IN  IF js = {} THEN values[p]
            ELSE LET u == us[CHOOSE j \in js : \A i \in js : i <= j]
                 IN  [N |-> CellOfNumber(u.match_score), O |-> u.verdict, P |-> u.notes]]

\* how often each position has been the target of an update
CountWrites(w, us) ==
    [p \in 1..Len(w) |->
        w[p] + Cardinality({j \in 1..Len(us) : TargetRow(us[j].rowIndex) = p})]

\* appendRunLog line 218
LogTabProdOnly(mode) == "Runs - prod"

LogTab(mode) == IF mode = "test" THEN "Runs - test" ELSE "Runs - prod"

----------------------------------------------------------------------------
(* app/api/start/route.ts: POST *)

DefaultChunkSize == 50

\* lines 76-89: the effective chunk size
ChunkSizeUnfloored(c) == 
    LET raw == c["BATCH_SIZE"]
        n == NumberOf(raw)
    IN  IF raw # Undefined /\ raw # "" /\ n.finite /\ n.halves > 0
        THEN n.halves \div 2 ELSE DefaultChunkSize

ChunkSize(c) ==
    LET raw == c["BATCH_SIZE"]
        n == NumberOf(raw)
        chunkSize == IF raw # Undefined /\ raw # "" /\ n.finite /\ n.halves > 0
                     THEN n.halves \div 2 ELSE 0
    IN  IF chunkSize <= 0 THEN DefaultChunkSize ELSE chunkSize

Slice(seq, n) == SubSeq(seq, 1, Min(n, Len(seq)))

\* lines 68-73: the caller's limit
ApplyLimitAlways(pending, limit) ==
    IF limit # NoLimit /\ Len(pending) > limit THEN Slice(pending, Max(limit, 0))
    ELSE pending

ApplyLimit(pending, limit) ==
    IF limit # NoLimit /\ limit > 0 /\ Len(pending) > limit THEN Slice(pending, limit)
    ELSE pending

\* lines 91-93: the chunk size
ApplyChunkNone(rs, chunkSize) == rs

ApplyChunk(rs, chunkSize) == IF Len(rs) > chunkSize THEN Slice(rs, chunkSize) ELSE rs

\* lines 68-93: rowsToProcess
PlanRows(pending, limit, c) == ApplyChunk(ApplyLimit(pending, limit), ChunkSize(c))

OkResponse(b, totalPendingBefore, processed, m) ==
    [status |-> 200, mode |-> b.mode, totalPendingBefore |-> totalPendingBefore,
     processed |-> processed, metrics |-> m, error |-> ""]

ErrorResponse(status, message) ==
    [status |-> status, mode |-> "", totalPendingBefore |-> 0, processed |-> 0,
     metrics |-> NoMetrics, error |-> message]

\* a request reaches POST on slot k: the body is read and getConfig is called
Invoke(k, b) ==
    /\ stage' = [stage EXCEPT ![k] = "config"]
    /\ body' = [body EXCEPT ![k] = b]
    /\ resp' = [resp EXCEPT ![k] = NoResp]

\* only one invocation at a time, on the first slot
NoneInFlight == \A j \in Slots : stage[j] = "idle"

\* getConfig returned (line 38); readDatasetRows is called
PostConfigRead(k) ==
    /\ stage[k] = "config"
    /\ cfg' = [cfg EXCEPT ![k] = config]
    /\ stage' = [stage EXCEPT ![k] = "dataset"]
    /\ UNCHANGED <<storeVars, svc, body, pend, rows, batchVars, metrics, resp, hr,
                   histVars>>

\* readDatasetRows returned (lines 39-120): short-circuit, or plan the chunk
\* and start runLlmMatchBatch
PostDatasetRead(k) ==
    /\ stage[k] = "dataset"
    /\ LET allPendingRows == readDatasetRows(sheet)
           totalPendingBefore == Len(allPendingRows)
           rowsToProcess == PlanRows(allPendingRows, body[k].limit, cfg[k])
       IN  /\ pend' = [pend EXCEPT ![k] = allPendingRows]
           /\ IF totalPendingBefore = 0 \/ Len(rowsToProcess) = 0
              THEN /\ resp' = [resp EXCEPT ![k] =
                                  OkResponse(body[k], totalPendingBefore, 0, NoMetrics)]
                   /\ stage' = [stage EXCEPT ![k] = "done"]
                   /\ UNCHANGED <<rows, batchVars>>
              ELSE /\ StartBatch(k, rowsToProcess, body[k].parallel)
                   /\ stage' = [stage EXCEPT ![k] = "batch"]
                   /\ UNCHANGED resp
    /\ UNCHANGED <<storeVars, svc, body, cfg, metrics, hr, histVars>>

\* runLlmMatchBatch returned (line 118); writeMatchResults is called
PostBatchDoneEarly(k) ==
    /\ stage[k] = "batch"
    /\ \E d \in Durations :
          metrics' = [metrics EXCEPT ![k] = BatchRunMetrics(updates[k], d)]
    /\ stage' = [stage EXCEPT ![k] = "write"]
    /\ UNCHANGED <<storeVars, svc, body, cfg, pend, rows, batchVars, resp, hr,
                   histVars>>

PostBatchDone(k) ==
    /\ stage[k] = "batch"
    /\ PoolDone(k)
    /\ \E d \in Durations :
          metrics' = [metrics EXCEPT ![k] = BatchRunMetrics(updates[k], d)]
    /\ stage' = [stage EXCEPT ![k] = "write"]
    /\ UNCHANGED <<storeVars, svc, body, cfg, pend, rows, batchVars, resp, hr,
                   histVars>>

\* the batchUpdate of writeMatchResults took effect (line 122); then
\* computeTestingAccuracy (test mode) or appendRunLog is called
PostWriteDone(k) ==
    /\ stage[k] = "write"
    /\ sheet' = writeMatchResults(sheet, updates[k])
    /\ writes' = CountWrites(writes, updates[k])
    /\ stage' = [stage EXCEPT ![k] = IF body[k].mode = "test" THEN "accuracy" ELSE "log"]
    /\ UNCHANGED <<runLog, config, svc, body, cfg, pend, rows, batchVars, metrics,
                   resp, hr, seen, budget>>

\* computeTestingAccuracy returned (line 128); appendRunLog is called
PostAccuracyDone(k) ==
    /\ stage[k] = "accuracy"
    /\ stage' = [stage EXCEPT ![k] = "log"]
    /\ UNCHANGED <<storeVars, svc, body, cfg, pend, rows, batchVars, metrics, resp,
                   hr, histVars>>

\* the text of a timestamp cell: new Date().toISOString() taken in minute
\* `minute`, the empty string, or a text that Date.parse rejects ("n/a")
Iso(minute) == [kind |-> "iso", minute |-> minute]
EmptyTimestamp == [kind |-> "empty", minute |-> 0]
BadTimestamp == [kind |-> "text", minute |-> 0]

RunLogRow(ts, b, c, processed, m) ==
    [timestamp |-> ts, sheetId |-> "sheet", tabName |-> "tab", mode |-> b.mode,
     model |-> IF c["MODEL"] = Undefined THEN "" ELSE c["MODEL"],
     rowsProcessed |-> processed,
     count_same |-> m.count_same, count_diff |-> m.count_diff,
     count_unsure |-> m.count_unsure, avg_conf_same |-> m.avg_conf_same,
     avg_conf_diff |-> m.avg_conf_diff, avg_conf_unsure |-> m.avg_conf_unsure,
     duration_ms |-> m.duration_ms]

LogLength == Len(runLog["Runs - prod"]) + Len(runLog["Runs - test"])

\* appendRunLog returned (lines 134-164): the response goes out
PostLogDone(k) ==
    /\ stage[k] = "log"
    /\ LET processed == Len(updates[k])
       IN  /\ runLog' = [runLog EXCEPT ![LogTab(body[k].mode)] =
                            Append(@, RunLogRow(Iso(LogLength + 1), body[k], cfg[k],
                                                processed, metrics[k]))]
           /\ resp' = [resp EXCEPT ![k] =
                          OkResponse(body[k], Len(pend[k]), processed, metrics[k])]
    /\ stage' = [stage EXCEPT ![k] = "done"]
    /\ UNCHANGED <<sheet, config, svc, body, cfg, pend, rows, batchVars, metrics, hr,
                   histVars>>

\* the awaited Sheets call rejects: the catch of line 165 answers 500
PostFailWithMetrics(k) ==
    /\ stage[k] \in {"config", "dataset", "write", "accuracy", "log"}
    /\ budget.faults < MaxFaults
    /\ budget' = [budget EXCEPT !.faults = @ + 1]
    /\ resp' = [resp EXCEPT ![k] =
                   [ErrorResponse(500, "Sheets request failed") EXCEPT
                       !.metrics = metrics[k]]]
    /\ stage' = [stage EXCEPT ![k] = "done"]
    /\ UNCHANGED <<storeVars, svc, body, cfg, pend, rows, batchVars, metrics, hr,
                   writes, seen>>

PostFail(k) ==
    /\ stage[k] \in {"config", "dataset", "write", "accuracy", "log"}
    /\ budget.faults < MaxFaults
    /\ budget' = [budget EXCEPT !.faults = @ + 1]
    /\ resp' = [resp EXCEPT ![k] = ErrorResponse(500, "Sheets request failed")]
    /\ stage' = [stage EXCEPT ![k] = "done"]
    /\ UNCHANGED <<storeVars, svc, body, cfg, pend, rows, batchVars, metrics, hr,
                   writes, seen>>

\* the function is killed (crash, platform timeout): the caller gets a 504
PostCrash(k) ==
    /\ stage[k] \in {"config", "dataset", "batch", "write", "accuracy", "log"}
    /\ budget.faults < MaxFaults
    /\ budget' = [budget EXCEPT !.faults = @ + 1]
    /\ resp' = [resp EXCEPT ![k] = ErrorResponse(504, "")]
    /\ stage' = [stage EXCEPT ![k] = "done"]
    /\ UNCHANGED <<storeVars, svc, body, cfg, pend, rows, batchVars, metrics, hr,
                   writes, seen>>

\* the slot is free again once its response was taken
Release(k) ==
    /\ stage' = [stage EXCEPT ![k] = "idle"]
    /\ body' = [body EXCEPT ![k] = NoBody]
    /\ pend' = [pend EXCEPT ![k] = <<>>]
    /\ rows' = [rows EXCEPT ![k] = <<>>]
    /\ index' = [index EXCEPT ![k] = 0]
    /\ updates' = [updates EXCEPT ![k] = <<>>]
    /\ trace' = [trace EXCEPT ![k] = <<>>]
    /\ wk' = [wk EXCEPT ![k] = [w \in Workers |-> IdleWorker]]
    /\ metrics' = [metrics EXCEPT ![k] = NoMetrics]
    /\ resp' = [resp EXCEPT ![k] = NoResp]

Observed(r) == IF r.status = 200 THEN <<r.processed>> ELSE <<>>

----------------------------------------------------------------------------
(* Specification of one runLlmMatchBatch call on an arbitrary chunk *)

\* chunks: rows in sheet order; the first n rows of the sheet, or every
\* second row
RowIndexes == 2..(MaxRows + 1)

RECURSIVE SeqOfSet(_)
SeqOfSet(S) ==
    IF S = {} THEN <<>>
    ELSE LET m == CHOOSE x \in S : \A y \in S : x <= y
         IN  <<DatasetRow(m)>> \o SeqOfSet(S \ {m})

Chunks ==
    {SeqOfSet(2..n) : n \in 1..(MaxRows + 1)}
        \cup {SeqOfSet({r \in RowIndexes : r % 2 = 1})}

RetryChoices == {Undefined, "0", "2", "7"}

ConfigOf(batchSize, maxRetries) ==
    [key \in {"BATCH_SIZE", "MAX_RETRIES", "RATE_LIMIT_DELAY_MS", "MODEL"} |->
        CASE key = "BATCH_SIZE" -> batchSize
          [] key = "MAX_RETRIES" -> maxRetries
          [] key = "RATE_LIMIT_DELAY_MS" -> Undefined
          [] OTHER -> "gpt-5-mini"]

InitBatch ==
    /\ sheet = <<>>
    /\ writes = <<>>
    /\ budget = NoBudget
    /\ runLog = [t \in {"Runs - prod", "Runs - test"} |-> <<>>]
    /\ \E r \in RetryChoices : 
          /\ config = ConfigOf(Undefined, r)
          /\ cfg = [k \in Slots |-> ConfigOf(Undefined, r)]
    /\ svc \in Profiles
    /\ stage = [k \in Slots |-> IF k = 1 THEN "call" ELSE "idle"]
    /\ \E p \in 0..MaxParallel :
          body = [k \in Slots |-> IF k = 1 THEN [NoBody EXCEPT !.parallel = p] ELSE NoBody]
    /\ pend = [k \in Slots |-> <<>>]
    /\ \E c \in Chunks : rows = [k \in Slots |-> IF k = 1 THEN c ELSE <<>>]
    /\ index = [k \in Slots |-> 0]
    /\ updates = [k \in Slots |-> <<>>]
    /\ wk = [k \in Slots |-> [w \in Workers |-> IdleWorker]]
    /\ metrics = [k \in Slots |-> NoMetrics]
    /\ resp = [k \in Slots |-> NoResp]
    /\ hr = IdleClient
    /\ trace = [k \in Slots |-> <<>>]
    /\ seen = <<>>

NextBatch ==
    \E k \in Slots :
       \/ RunLlmMatchBatchCall(k)
       \/ \E w \in Workers : ChatReturns(k, w)
       \/ \E w \in Workers : ResponsesReturns(k, w)
       \/ \E w \in Workers : SleepDone(k, w)
       \/ RunLlmMatchBatchReturn(k)

SpecBatch == InitBatch /\ [][NextBatch]_vars

----------------------------------------------------------------------------
(* Claims about runLlmMatchBatch / runLlmMatchForRow (SpecBatch) *)

RowIndexesOf(rs) == {rs[j].rowIndex : j \in 1..Len(rs)}
Busy(k) == {w \in Workers : wk[k][w].pc \in {"chat", "responses", "sleep"}}
IsSynthetic(u) ==
    /\ u.verdict = "UNSURE"
    /\ u.match_score = 2
    /\ Len(u.notes) >= 3
    /\ u.notes[1] = "confidence=0.50;"
    /\ u.notes[2] = " Fallback UNSURE due to error: "

\* C1: for parallel >= 1, under every interleaving of the workers, no row is
\* claimed by two workers or pushed twice, and when the batch has returned the
\* updates hold exactly one result per input row (same length, same rowIndex
\* set), failed rows included.
C1_OneResultPerRow ==
    \A k \in Slots :
       body[k].parallel >= 1 /\ stage[k] \in {"batch", "returned"} =>
          /\ \A a, b \in 1..Len(updates[k]) :
                a # b => updates[k][a].rowIndex # updates[k][b].rowIndex
          /\ RowIndexesOf(updates[k]) \subseteq RowIndexesOf(rows[k])
          /\ \A w \in Busy(k) :
                /\ wk[k][w].i < Len(rows[k])
                /\ rows[k][wk[k][w].i + 1].rowIndex \notin RowIndexesOf(updates[k])
                /\ \A v \in Busy(k) : v # w => wk[k][v].i # wk[k][w].i
          /\ stage[k] = "returned" =>
                /\ Len(updates[k]) = Len(rows[k])
                /\ RowIndexesOf(updates[k]) = RowIndexesOf(rows[k])

\* a batch of three rows run by two workers has returned; one row failed and
\* the results came back in another order than the rows went in
C1_Witness ==
    /\ stage[1] = "returned"
    /\ body[1].parallel = 2
    /\ Len(rows[1]) = 3
    /\ Len(updates[1]) = 3
    /\ updates[1][1].rowIndex # rows[1][1].rowIndex
    /\ \E j \in 1..3 : trace[1][j].path = "error"
    /\ \E j \in 1..3 : trace[1][j].path = "strict"

\* C2: a row whose classification fails (thrown error after the retry policy,
\* or a reply that neither the strict nor the heuristic parse accepts) gets
\* the synthetic result UNSURE / 2 / "confidence=0.50;" + failure description,
\* and the batch still returns every row of the chunk.
C2_FailedRowFallsBack ==
    \A k \in Slots :
       /\ \A j \in 1..Len(trace[k]) :
             trace[k][j].path \in {"error", "failed"} =>
                /\ IsSynthetic(updates[k][j])
                /\ trace[k][j].path = "error" =>
                      SubSeq(updates[k][j].notes, 3, Len(updates[k][j].notes))
                         = trace[k][j].err.message
       /\ stage[k] = "returned" => RowIndexesOf(updates[k]) = RowIndexesOf(rows[k])

\* a returned chunk holding a row that exhausted its retries, and a row whose
\* reply was classified normally
C2_Witness ==
    /\ stage[1] = "returned"
    /\ Len(updates[1]) >= 2
    /\ \E j \in 1..Len(trace[1]) :
          /\ trace[1][j].path = "error"
          /\ trace[1][j].calls > 1
          /\ IsSynthetic(updates[1][j])
    /\ \E j \in 1..Len(trace[1]) : trace[1][j].path = "strict"

FixedScore(verdict) ==
    CASE verdict = "SAME" -> 1 [] verdict = "DIFFERENT" -> 0 [] OTHER -> 2

\* C3: every result of runLlmMatchForRow (strict, heuristic or fallback) has
\* match_score equal to the fixed mapping of its verdict (SAME 1, DIFFERENT 0,
\* UNSURE 2).
C3_ScoreMatchesVerdict ==
    \A k \in Slots : \A j \in 1..Len(updates[k]) :
       /\ updates[k][j].verdict \in Verdicts
       /\ updates[k][j].match_score = FixedScore(updates[k][j].verdict)

\* the retryable conditions, as the retry policy is described
ClaimRetryable(e) ==
    \/ e.status = 429
    \/ e.status \in 500..599
    \/ e.message # <<>> /\ Head(e.message) = "Empty content from model"
    \/ \E j \in 1..Len(e.message) : e.message[j] \in {"ETIMEDOUT", "ECONNRESET", "ENOTFOUND"}

\* C4: with a whole retry budget n (0..3), a row whose attempts all raise a
\* retryable error is attempted exactly n + 1 times before it falls back, and
\* never more often while it is in progress; MAX_RETRIES=2 gives 3 attempts.
C4_RetryCeiling ==
    \A k \in Slots :
       LET h == MaxRetriesHalves(cfg[k])
       IN  h % 2 = 0 =>
              /\ h \div 2 \in 0..3
              /\ \A j \in 1..Len(trace[k]) :
                    trace[k][j].path = "error" /\ ClaimRetryable(trace[k][j].err) =>
                       /\ trace[k][j].calls = h \div 2 + 1
                       /\ IsSynthetic(updates[k][j])
                       /\ cfg[k]["MAX_RETRIES"] = "2" => trace[k][j].calls = 3
              /\ \A w \in Busy(k) : wk[k][w].calls <= h \div 2 + 1

\* MAX_RETRIES=2: a row gave up after three attempts that all hit the rate limit
C4_Witness ==
    /\ cfg[1]["MAX_RETRIES"] = "2"
    /\ \E j \in 1..Len(trace[1]) :
          /\ trace[1][j].path = "error"
          /\ trace[1][j].err = E429
          /\ trace[1][j].calls = 3
          /\ trace[1][j].fails = 3

Started(k) == {w \in Workers : wk[k][w].pc # "idle"}
ClaimedRows(k) == Min(index[k], Len(rows[k]))

\* C22: for parallel >= 1 and at least one row, runLlmMatchBatch starts
\* exactly min(parallel, number of rows) workers; the workers that are in a
\* classification call or in a retry wait are never more than that, they hold
\* different rows, and the rows claimed and not yet pushed are as many as the
\* busy workers (one row per worker at a time).
C22_WorkerPoolBound ==
    \A k \in Slots :
       (stage[k] \in {"batch", "returned"} /\ body[k].parallel >= 1 /\ Len(rows[k]) >= 1) =>
          LET bound == IF body[k].parallel <= Len(rows[k]) THEN body[k].parallel
                       ELSE Len(rows[k])
          IN  /\ Cardinality(Started(k)) = bound
              /\ Cardinality(Busy(k)) <= bound
              /\ Cardinality({wk[k][w].i : w \in Busy(k)}) = Cardinality(Busy(k))
              /\ ClaimedRows(k) = Len(updates[k]) + Cardinality(Busy(k))

\* two workers on three rows, one calling the service and one in a retry
\* wait, with one result pushed already
C22_Witness ==
    /\ stage[1] = "batch"
    /\ body[1].parallel = 2
    /\ Len(rows[1]) = 3
    /\ Len(updates[1]) = 1
    /\ Cardinality(Busy(1)) = 2
    /\ \E w \in Workers : wk[1][w].pc = "sleep"
    /\ \E w \in Workers : wk[1][w].pc = "chat"

\* the strict parse of a reply succeeds: JSON with three valid fields
StrictSucceeds(c) ==
    /\ JsonParses(cleanJsonFromContent(c))
    /\ c.verdict \in Verdicts
    /\ c.score \in {"0", "1", "2"}
    /\ c.notes # <<>>

\* the three patterns of the heuristic extraction all match the reply
AllThreeMatch(c) ==
    /\ ToUpperCase(c.verdict) \in Verdicts
    /\ c.score \in {"0", "1", "2"}
    /\ c.notes # <<>>

\* the replies of the service that give entry j of slot k its result
RepliesBehind(k, j) ==
    {o \in svc : o.kind = "content" /\ ParseOutput(o.c).notes = updates[k][j].notes}

\* C20 as stated: a reply whose strict parse fails, be it no JSON or JSON with
\* a missing or invalid field, goes through the heuristic extraction, so a row
\* is a row-level failure of parsing only when its reply fails the strict
\* parse and does not match all three patterns.
C20_HeuristicAfterAnyStrictFailure ==
    \A k \in Slots : \A j \in 1..Len(trace[k]) :
        trace[k][j].path = "failed" =>
            \A o \in RepliesBehind(k, j) :
                ~StrictSucceeds(o.c) /\ ~AllThreeMatch(o.c)

\* the results of one verdict in a chunk, and those of them whose notes
\* carry a confidence
InBucket(us, verdict) == {j \in 1..Len(us) : us[j].verdict = verdict}
Bearing(us, verdict) == {j \in InBucket(us, verdict) : parseConfidence(us[j].notes) # -1}
RECURSIVE SumConfidence(_, _)
SumConfidence(us, js) ==
    IF js = {} THEN 0
    ELSE LET j == CHOOSE x \in js : TRUE
         IN  parseConfidence(us[j].notes) + SumConfidence(us, js \ {j})
MetricsOf(m, verdict) ==
    CASE verdict = "SAME" -> [count |-> m.count_same, avg |-> m.avg_conf_same]
      [] verdict = "DIFFERENT" -> [count |-> m.count_diff, avg |-> m.avg_conf_diff]
      [] OTHER -> [count |-> m.count_unsure, avg |-> m.avg_conf_unsure]

\* C16: in the metrics of one chunk each bucket counts all results of its
\* verdict, and its average is the sum over the number of only those results
\* whose notes yield a confidence; a bucket without such a result, an empty
\* bucket included, has the average null.
C16_BucketAverage ==
    \A k \in Slots : stage[k] = "returned" =>
       \A v \in Verdicts :
          LET b == MetricsOf(metrics[k], v)
              bearing == Bearing(updates[k], v)
          IN  /\ b.count = Cardinality(InBucket(updates[k], v))
              /\ IF bearing = {} THEN b.avg = NullAvg
                 ELSE /\ b.avg # NullAvg
                      /\ b.avg.n = Cardinality(bearing)
                      /\ b.avg.sum = SumConfidence(updates[k], bearing)

\* two UNSURE results of which one carries a confidence, and an empty SAME
\* bucket
C16_Witness ==
    /\ stage[1] = "returned"
    /\ metrics[1].count_unsure = 2
    /\ metrics[1].avg_conf_unsure = [sum |-> 50, n |-> 1]
    /\ metrics[1].count_same = 0
    /\ metrics[1].avg_conf_same = NullAvg

----------------------------------------------------------------------------
(* app/components/App.tsx: handleRun *)

MAX_CALLS == 200

RECURSIVE GCD(_, _)
GCD(a, b) == IF b = 0 THEN a ELSE GCD(b, a % b)

\* fractions num/den, den >= 1, in lowest terms; confidences are hundredths
Zero == [num |-> 0, den |-> 1]
Frac(num, den) == LET g == GCD(num, den) IN
    IF num = 0 THEN Zero ELSE [num |-> num \div g, den |-> den \div g]
FracAdd(a, b) == Frac(a.num * b.den + b.num * a.den, a.den * b.den)

\* lines 321-332: one bucket of a response added to the running sums
AddBucketUnweighted(acc, avg, count) ==
    IF avg # NullAvg /\ count > 0
    THEN [sum |-> FracAdd(acc.sum, Frac(avg.sum, avg.n)), n |-> acc.n + count]
    ELSE acc

AddBucket(acc, avg, count) ==
    IF avg # NullAvg /\ count > 0
    THEN [sum |-> FracAdd(acc.sum, Frac(avg.sum * count, avg.n)), n |-> acc.n + count]
    ELSE acc

\* lines 352-354: sum / n or null, as a fraction
Recombined(acc) ==
    IF acc.n > 0 THEN [null |-> FALSE, value |-> Frac(acc.sum.num, acc.sum.den * acc.n)]
    ELSE [null |-> TRUE, value |-> Zero]

NoAcc == [sum |-> Zero, n |-> 0]
NoRun == [status |-> 0]

\* line 276: the limit typed into the form ("" is NoLimit)
InitialLimit(limit) == IF limit # NoLimit /\ limit > 0 THEN limit ELSE NoLimit

\* line 298-299
RequestBody(remaining, parallel, mode) ==
    [limit |-> remaining, parallel |-> parallel, mode |-> mode]

\* the form is submitted (lines 263-305): the first fetch goes out
HandleRunSubmit(k) ==
    /\ hr.pc = "idle"
    /\ NoneInFlight
    /\ k = 1
    /\ budget.runs < MaxRuns
    /\ budget' = [budget EXCEPT !.runs = @ + 1]
    /\ \E limit \in budget.limits, parallel \in budget.parallels, mode \in budget.modes :
          /\ hr' = [pc |-> "fetch", running |-> TRUE, error |-> "",
                    parallel |-> parallel, mode |-> mode,
                    initialLimit |-> InitialLimit(limit),
                    remaining |-> InitialLimit(limit), callIndex |-> 0,
                    totalProcessed |-> 0, totalSame |-> 0, totalDiff |-> 0,
                    totalUnsure |-> 0, confSame |-> NoAcc, confDiff |-> NoAcc,
                    confUnsure |-> NoAcc, totalDurationMs |-> 0,
                    firstTotalPendingBefore |-> -1, lastRun |-> NoRun]
          /\ Invoke(k, RequestBody(InitialLimit(limit), parallel, mode))
    /\ UNCHANGED <<storeVars, svc, cfg, pend, rows, batchVars, metrics, writes, seen>>

\* lines 313-339: the totals after a response that processed rows
AccumulateKeepsRemaining(h, data) ==
    [h EXCEPT
        !.totalProcessed = @ + data.processed,
        !.totalSame = @ + data.metrics.count_same,
        !.totalDiff = @ + data.metrics.count_diff,
        !.totalUnsure = @ + data.metrics.count_unsure,
        !.totalDurationMs = @ + data.metrics.duration_ms,
        !.confSame = AddBucket(@, data.metrics.avg_conf_same, data.metrics.count_same),
        !.confDiff = AddBucket(@, data.metrics.avg_conf_diff, data.metrics.count_diff),
        !.confUnsure =
            AddBucket(@, data.metrics.avg_conf_unsure, data.metrics.count_unsure)]

Accumulate(h, data) ==
    [h EXCEPT
        !.totalProcessed = @ + data.processed,
        !.totalSame = @ + data.metrics.count_same,
        !.totalDiff = @ + data.metrics.count_diff,
        !.totalUnsure = @ + data.metrics.count_unsure,
        !.totalDurationMs = @ + data.metrics.duration_ms,
        !.confSame = AddBucket(@, data.metrics.avg_conf_same, data.metrics.count_same),
        !.confDiff = AddBucket(@, data.metrics.avg_conf_diff, data.metrics.count_diff),
        !.confUnsure =
            AddBucket(@, data.metrics.avg_conf_unsure, data.metrics.count_unsure),
        !.remaining = IF @ # NoLimit THEN @ - data.processed ELSE @]

\* the loop leaves after this response (lines 313, 336, 339), h accumulated
BreaksAfterFirst(h, data) == TRUE

Breaks(h, data) ==
    \/ data.processed <= 0
    \/ h.remaining # NoLimit /\ h.remaining <= 0
    \/ data.processed >= data.totalPendingBefore

\* lines 344-357
Aggregated(h, lastResponse) ==
    [status |-> 200, mode |-> lastResponse.mode,
     totalPendingBefore |-> IF h.firstTotalPendingBefore # -1
                            THEN h.firstTotalPendingBefore
                            ELSE lastResponse.totalPendingBefore,
     processed |-> h.totalProcessed,
     count_same |-> h.totalSame, count_diff |-> h.totalDiff,
     count_unsure |-> h.totalUnsure,
     avg_conf_same |-> Recombined(h.confSame),
     avg_conf_diff |-> Recombined(h.confDiff),
     avg_conf_unsure |-> Recombined(h.confUnsure),
     duration_ms |-> h.totalDurationMs]

\* the slot answers and is invoked again at once
Reinvoke(k, b) ==
    /\ stage' = [stage EXCEPT ![k] = "config"]
    /\ body' = [body EXCEPT ![k] = b]
    /\ pend' = [pend EXCEPT ![k] = <<>>]
    /\ rows' = [rows EXCEPT ![k] = <<>>]
    /\ index' = [index EXCEPT ![k] = 0]
    /\ updates' = [updates EXCEPT ![k] = <<>>]
    /\ trace' = [trace EXCEPT ![k] = <<>>]
    /\ wk' = [wk EXCEPT ![k] = [w \in Workers |-> IdleWorker]]
    /\ metrics' = [metrics EXCEPT ![k] = NoMetrics]
    /\ resp' = [resp EXCEPT ![k] = NoResp]

\* fetch("/api/start") resolved (lines 307-359): throw, leave the loop, or
\* post the next chunk
HandleRunResponse(k) ==
    /\ hr.pc = "fetch"
    /\ stage[k] = "done"
    /\ seen' = seen \o Observed(resp[k])
    /\ LET data == resp[k]
           first == [hr EXCEPT !.firstTotalPendingBefore =
                                  IF @ = -1 THEN data.totalPendingBefore ELSE @]
           acc == IF data.processed <= 0 THEN first ELSE Accumulate(first, data)
       IN  IF data.status # 200
           THEN /\ hr' = [pc |-> "idle", running |-> FALSE,
                          error |-> IF data.error # "" THEN data.error ELSE "Run failed"]
                /\ Release(k)
           ELSE IF Breaks(acc, data) \/ hr.callIndex + 1 >= MAX_CALLS
           THEN /\ hr' = [acc EXCEPT !.pc = "wrapup",
                                     !.callIndex = IF Breaks(acc, data) THEN @ ELSE @ + 1,
                                     !.lastRun = Aggregated(acc, data)]
                /\ Release(k)
           ELSE /\ hr' = [acc EXCEPT !.callIndex = @ + 1]
                /\ Reinvoke(k, RequestBody(acc.remaining, hr.parallel, hr.mode))
    /\ UNCHANGED <<storeVars, svc, cfg, writes, budget>>

\* lines 361-372: the status and history fetches, then running is cleared
HandleRunWrapUpKeepsRunning ==
    /\ hr.pc = "wrapup"
    /\ \E ok \in BOOLEAN :
          hr' = [pc |-> "idle", running |-> TRUE,
                 error |-> IF ok THEN "" ELSE "Error starting run"]
    /\ UNCHANGED <<storeVars, svc, stage, body, cfg, pend, rows, batchVars, metrics,
                   resp, writes, seen, budget>>

HandleRunWrapUp ==
    /\ hr.pc = "wrapup"
    /\ \E ok \in BOOLEAN :
          hr' = [pc |-> "idle", running |-> FALSE,
                 error |-> IF ok THEN "" ELSE "Error starting run"]
    /\ UNCHANGED <<storeVars, svc, stage, body, cfg, pend, rows, batchVars, metrics,
                   resp, writes, seen, budget>>

----------------------------------------------------------------------------
(* Specification of /api/start called directly, one invocation at a time *)

Modes == {"prod", "test"}
LimitChoices == {NoLimit, -1, 0, 2}
ParallelChoices == {1, 2}

\* an HTTP client posts to /api/start
DirectCall(k) ==
    /\ NoneInFlight
    /\ k = 1
    /\ budget.calls < MaxCalls
    /\ \E limit \in LimitChoices, parallel \in ParallelChoices, mode \in Modes :
          Invoke(k, [limit |-> limit, parallel |-> parallel, mode |-> mode])
    /\ budget' = [budget EXCEPT !.calls = @ + 1]
    /\ UNCHANGED <<storeVars, svc, cfg, pend, rows, batchVars, metrics, hr, writes,
                   seen>>

\* the client has read the response
DirectReceive(k) ==
    /\ stage[k] = "done"
    /\ hr.pc = "idle"
    /\ seen' = seen \o Observed(resp[k])
    /\ Release(k)
    /\ UNCHANGED <<storeVars, svc, cfg, hr, writes, budget>>

\* rows of the dataset tab as an earlier session or a person left them
Evaluated == [N |-> "1", O |-> "SAME", P |-> <<"confidence=0.90;", " earlier run">>]
OnlyScore == [N |-> "0", O |-> "", P |-> <<>>]
OnlyVerdict == [N |-> "", O |-> "DIFFERENT", P |-> <<>>]
OnlyNotes == [N |-> "", O |-> "", P |-> <<"checked by hand">>]
PriorRows == {Evaluated, OnlyScore, OnlyVerdict, OnlyNotes}

InitialSheets ==
    {[p \in 1..n |-> EmptyCells] : n \in 0..MaxRows}
       \cup {[p \in 1..MaxRows |-> IF p = q THEN x ELSE EmptyCells] :
                x \in PriorRows, q \in {2}}

ApiProfiles == { {Reply(COkDiff)}, {Reply(CSameZero), Empty} }

BatchSizeChoices == {Undefined, "1"}

InitSlots ==
    /\ stage = [k \in Slots |-> "idle"]
    /\ body = [k \in Slots |-> NoBody]
    /\ cfg = [k \in Slots |-> config]
    /\ pend = [k \in Slots |-> <<>>]
    /\ rows = [k \in Slots |-> <<>>]
    /\ index = [k \in Slots |-> 0]
    /\ updates = [k \in Slots |-> <<>>]
    /\ wk = [k \in Slots |-> [w \in Workers |-> IdleWorker]]
    /\ metrics = [k \in Slots |-> NoMetrics]
    /\ resp = [k \in Slots |-> NoResp]
    /\ hr = IdleClient
    /\ trace = [k \in Slots |-> <<>>]
    /\ seen = <<>>
    /\ writes = [p \in 1..Len(sheet) |-> 0]

InitIdle ==
    /\ runLog = [t \in {"Runs - prod", "Runs - test"} |-> <<>>]
    /\ InitSlots

InitApi ==
    /\ sheet \in InitialSheets
    /\ \E b \in BatchSizeChoices : config = ConfigOf(b, Undefined)
    /\ svc \in ApiProfiles
    /\ budget = NoBudget
    /\ InitIdle

PostStep(k) ==
    \/ PostConfigRead(k)
    \/ PostDatasetRead(k)
    \/ \E w \in Workers : ChatReturns(k, w)
    \/ \E w \in Workers : ResponsesReturns(k, w)
    \/ \E w \in Workers : SleepDone(k, w)
    \/ PostBatchDone(k)
    \/ PostWriteDone(k)
    \/ PostAccuracyDone(k)
    \/ PostLogDone(k)
    \/ PostFail(k)
    \/ PostCrash(k)

NextApi ==
    \E k \in Slots :
       \/ DirectCall(k)
       \/ PostStep(k)
       \/ DirectReceive(k)

SpecApi == InitApi /\ [][NextApi]_vars

----------------------------------------------------------------------------
(* Claims on /api/start called one invocation at a time (SpecApi) *)

\* a record carries a result: its match_score or verdict cell is filled
CarriesResult(cells) == cells.N # "" \/ cells.O # ""
Unresolved == {p \in DOMAIN sheet : ~CarriesResult(sheet[p])}
Stored(k) ==
    \/ stage[k] \in {"accuracy", "log"}
    \/ stage[k] = "done" /\ resp[k].status = 200 /\ resp[k].processed > 0

C6_Inv ==
    /\ \A p \in DOMAIN writes : writes[p] <= 1
    /\ \A p \in DOMAIN writes : writes[p] = 1 => CarriesResult(sheet[p])
    /\ \A k \in Slots : stage[k] \in {"batch", "write"} =>
          /\ RowIndexesOf(pend[k]) = {p + 1 : p \in Unresolved}
          /\ \A r \in RowIndexesOf(rows[k]) \cup RowIndexesOf(updates[k]) :
                r - 1 \in Unresolved /\ writes[r - 1] = 0

C6_Step ==
    \A p \in DOMAIN sheet :
       CarriesResult(sheet[p]) => sheet'[p] = sheet[p] /\ writes'[p] = writes[p]

\* C6: over non-overlapping invocations, failed and crashed ones included, no
\* record is the target of more than one result write; a record that carries
\* a result is never changed or written again; and while an invocation
\* classifies and writes, its pending set is exactly the records without a
\* result and every row it handles is one of them.
C6_WrittenOnce == [](C6_Inv) /\ [][C6_Step]_vars

\* an invocation wrote part of the dataset and was lost before it answered;
\* the next one is about to write rows of the remainder
C6_Witness ==
    /\ budget.faults = 1
    /\ budget.calls = 2
    /\ seen = <<>>
    /\ stage[1] = "write"
    /\ updates[1] # <<>>
    /\ \E p \in DOMAIN writes : writes[p] = 1

\* C7: once writeMatchResults has stored a chunk, readDatasetRows returns no
\* row of that chunk, whatever verdict and match_score (0 included) were
\* stored; when the chunk covered every pending row readDatasetRows returns
\* nothing.
C7_SelectorIdempotent ==
    \A k \in Slots : Stored(k) =>
       /\ \A j \in 1..Len(updates[k]) :
             updates[k][j].rowIndex \notin RowIndexesOf(readDatasetRows(sheet))
       /\ Len(updates[k]) = Len(pend[k]) => readDatasetRows(sheet) = <<>>

\* a chunk with a match_score of 0 covered every pending row and is stored
C7_Witness ==
    /\ stage[1] = "log"
    /\ Len(pend[1]) >= 2
    /\ Len(updates[1]) = Len(pend[1])
    /\ \E j \in 1..Len(updates[1]) :
          updates[1][j].match_score = 0 /\ sheet[updates[1][j].rowIndex - 1].N = "0"
    /\ readDatasetRows(sheet) = <<>>

\* the dataset was read and the chunk of this invocation was planned
Planned(k) ==
    \/ stage[k] \in {"batch", "write", "accuracy", "log"}
    \/ stage[k] = "done" /\ resp[k].status = 200

Prefix(seq, n) == [j \in 1..n |-> seq[j]]

\* C10 as stated: any limit that is present caps the chunk
C10_AnyLimitCaps ==
    \A k \in Slots : Planned(k) =>
       LET limit == body[k].limit
           chunkSize == ChunkSize(cfg[k])
           n == IF limit = NoLimit THEN Min(Len(pend[k]), chunkSize)
                ELSE Max(0, Min(Len(pend[k]), Min(limit, chunkSize)))
       IN  rows[k] = Prefix(pend[k], n)

\* C10: the rows handed to runLlmMatchBatch are the prefix of the pending rows
\* of length min(len(pending), limit, chunkSize) when limit is a positive
\* number, and of length min(len(pending), chunkSize) when limit is absent,
\* zero or negative.
C10_PositiveLimitCaps ==
    \A k \in Slots : Planned(k) =>
       LET limit == body[k].limit
           chunkSize == ChunkSize(cfg[k])
           n == IF limit = NoLimit \/ limit <= 0 THEN Min(Len(pend[k]), chunkSize)
                ELSE Min(Len(pend[k]), Min(limit, chunkSize))
       IN  rows[k] = Prefix(pend[k], n)

\* limit 2 cut three pending rows to two under the default chunk size
C10_Witness ==
    /\ stage[1] = "batch"
    /\ body[1].limit = 2
    /\ Len(pend[1]) = 3
    /\ ChunkSize(cfg[1]) = DefaultChunkSize
    /\ Len(rows[1]) = 2

\* slot k answers 200 in this step
Returns200(k) == stage[k] # "done" /\ stage'[k] = "done" /\ resp'[k].status = 200
LogTabs == {"Runs - prod", "Runs - test"}
PartitionOf(mode) == IF mode = "test" THEN "Runs - test" ELSE "Runs - prod"
AppendsOneRow(tab) ==
    /\ Len(runLog'[tab]) = Len(runLog[tab]) + 1
    /\ SubSeq(runLog'[tab], 1, Len(runLog[tab])) = runLog[tab]
    /\ \A other \in LogTabs \ {tab} : runLog'[other] = runLog[other]

AsRead(k) ==
    \/ stage[k] \in {"batch", "write"}
    \/ stage[k] = "done" /\ resp[k].status = 200 /\ resp[k].processed = 0
BothEmpty == {p \in DOMAIN sheet : sheet[p].N = "" /\ sheet[p].O = ""}

C17_Inv ==
    \A k \in Slots : AsRead(k) =>
       /\ RowIndexesOf(pend[k]) = {p + 1 : p \in BothEmpty}
       /\ Len(pend[k]) = Cardinality(BothEmpty)
       /\ \A i, j \in 1..Len(pend[k]) : i < j => pend[k][i].rowIndex < pend[k][j].rowIndex

C17_Step == \A k \in Slots : stage[k] = "dataset" => sheet' = sheet /\ runLog' = runLog

\* C17: readDatasetRows returns, in sheet order and once each, exactly the rows
\* whose match_score (N) and verdict (O) cells are both empty, so a row with
\* only one of the two filled is left out; the step that reads changes neither
\* the dataset nor the run log.
C17_PendingIsBothEmpty == [](C17_Inv) /\ [][C17_Step]_vars

\* the second row carries a score and no verdict: the read returned the rows
\* around it
C17_Witness ==
    /\ stage[1] = "batch"
    /\ Len(sheet) = 3
    /\ sheet[2] = OnlyScore
    /\ RowIndexesOf(pend[1]) = {2, 4}

\* every row of the chunk of slot k has its result in updates
AllClassified(k) ==
    /\ PoolDone(k)
    /\ Len(updates[k]) = Len(rows[k])
    /\ RowIndexesOf(updates[k]) = RowIndexesOf(rows[k])

\* the results of slot k are in the dataset
AllWritten(k) ==
    \A j \in 1..Len(updates[k]) :
        /\ sheet[updates[k][j].rowIndex - 1].O = updates[k][j].verdict
        /\ writes[updates[k][j].rowIndex - 1] = 1

C24_Inv ==
    \A k \in Slots :
       /\ stage[k] = "batch" =>
             \A r \in RowIndexesOf(rows[k]) : ~CarriesResult(sheet[r - 1])
       /\ stage[k] \in {"write", "accuracy", "log"} => AllClassified(k)
       /\ stage[k] \in {"accuracy", "log"} => AllWritten(k)
       /\ (stage[k] = "done" /\ resp[k].status = 200 /\ resp[k].processed > 0) =>
             AllClassified(k) /\ AllWritten(k)

C24_Step ==
    /\ sheet' # sheet =>
          \E k \in Slots :
             /\ stage[k] = "write" /\ stage'[k] \in {"accuracy", "log"}
             /\ AllClassified(k)
             /\ \A p \in DOMAIN sheet :
                   sheet'[p] # sheet[p] <=> p + 1 \in RowIndexesOf(updates[k])
             /\ runLog' = runLog
    /\ runLog' # runLog =>
          \E k \in Slots :
             /\ stage[k] = "log" /\ stage'[k] = "done"
             /\ AllWritten(k)
             /\ LogLength' = LogLength + 1
             /\ resp'[k].status = 200
             /\ resp'[k].processed = Len(rows[k])
    /\ \A k \in Slots :
          (stage'[k] = "done" /\ stage[k] # "done" /\ resp'[k].status = 200
              /\ resp'[k].processed > 0) => runLog' # runLog

\* C24: within one invocation every row of the chunk is classified, then all
\* results are written in one write, then the run-log row is appended, then
\* the response goes out: no result of the chunk is in the dataset while its
\* rows are being classified, the write stores all results of the chunk at
\* once, and a run-log row is appended only for a chunk whose results are
\* written, in the step that produces the response.
C24_StepsInOrder == [](C24_Inv) /\ [][C24_Step]_vars

\* a chunk of two rows went through all four steps
C24_Witness ==
    /\ stage[1] = "done"
    /\ resp[1].status = 200
    /\ resp[1].processed = 2
    /\ Len(updates[1]) = 2
    /\ AllWritten(1)
    /\ LogLength = 1

\* slot k answers 500 in this step, from one of the given stages
FailsAt(k, stages) == stage[k] \in stages /\ stage'[k] = "done" /\ resp'[k].status = 500

\* C18: while an invocation reads the config and the dataset it writes no
\* result, and until its result write has gone through it appends no run-log
\* row; when the config read, the dataset read or the result write fails, the
\* answer is an error with a message and without metrics or processed rows,
\* and the failed step has changed neither the dataset nor the run log.
C18_FailureReportsNothing ==
    [][\A k \in Slots :
          /\ stage[k] \in {"config", "dataset"} => sheet' = sheet
          /\ stage[k] \in {"config", "dataset", "batch", "write"} => runLog' = runLog
          /\ FailsAt(k, {"config", "dataset", "write"}) =>
                /\ resp'[k].error # ""
                /\ resp'[k].metrics = NoMetrics
                /\ resp'[k].processed = 0
                /\ sheet' = sheet
                /\ runLog' = runLog]_vars

\* the write of a classified chunk failed: a 500 with a message, nothing
\* written and nothing logged
C18_Witness ==
    /\ stage[1] = "done"
    /\ resp[1].status = 500
    /\ resp[1].error # ""
    /\ budget.calls = 1
    /\ updates[1] # <<>>
    /\ metrics[1] # NoMetrics
    /\ \A p \in DOMAIN writes : writes[p] = 0
    /\ LogLength = 0

----------------------------------------------------------------------------
(* Specification of the run driver: handleRun posting chunk after chunk *)

\* small datasets with every input; the 120-row scenario of the design; a
\* dataset one row larger than MAX_CALLS chunks of one row
RunScenarios ==
    {[name |-> "small", rows |-> n, batch |-> b, svc |-> p, faults |-> 0,
      limits |-> {NoLimit, 0, 1, 2}, parallels |-> {1, 2}, modes |-> Modes] :
        n \in 0..MaxRows, b \in BatchSizeChoices, p \in ApiProfiles}
    \cup
    {[name |-> "120 pending", rows |-> 120, batch |-> "50", svc |-> {Reply(COkSame)},
      faults |-> MaxFaults, limits |-> {NoLimit}, parallels |-> {1},
      modes |-> {"prod"}],
     [name |-> "long", rows |-> MAX_CALLS + 1, batch |-> "1",
      svc |-> {Reply(COkDiff)}, faults |-> MaxFaults, limits |-> {NoLimit},
      parallels |-> {1}, modes |-> {"prod"}]}

InitScenario(sc) ==
       /\ sheet = [p \in 1..sc.rows |-> EmptyCells]
       /\ config = ConfigOf(sc.batch, Undefined)
       /\ svc = sc.svc
       /\ budget = [NoBudget EXCEPT !.faults = sc.faults, !.scenario = sc.name,
                                    !.limits = sc.limits, !.parallels = sc.parallels,
                                    !.modes = sc.modes]
       /\ InitIdle

InitRun == \E sc \in RunScenarios : InitScenario(sc)

NextRun ==
    \/ \E k \in Slots :
          \/ HandleRunSubmit(k)
          \/ PostStep(k)
          \/ HandleRunResponse(k)
    \/ HandleRunWrapUp

SpecRun == InitRun /\ [][NextRun]_vars

\* every pending promise settles: a step that can be taken is taken; the
\* 120-row scenario next to one small dataset with service and store faults
LiveScenarios ==
    {sc \in RunScenarios : sc.name = "120 pending"}
    \cup
    {[name |-> "small", rows |-> MaxRows, batch |-> Undefined,
      svc |-> {Reply(CSameZero), Empty}, faults |-> 0, limits |-> {NoLimit, 1},
      parallels |-> {2}, modes |-> Modes]}

InitRunLive == \E sc \in LiveScenarios : InitScenario(sc)

SpecRunLive == InitRunLive /\ [][NextRun]_vars /\ WF_vars(NextRun)

----------------------------------------------------------------------------
(* Claims on the run driver (SpecRun, SpecRunLive) *)

LoopEnded == hr.pc = "wrapup"
NoPendingLeft == readDatasetRows(sheet) = <<>>
LimitExhausted == hr.initialLimit # NoLimit /\ hr.totalProcessed >= hr.initialLimit

Scenario120 == budget.scenario = "120 pending"
ExpectedProcessed(j) == CASE j \in {1, 2} -> 50 [] j = 3 -> 20 [] OTHER -> 0

C9_Inv ==
    Scenario120 =>
       /\ \A j \in 1..Len(seen) : seen[j] = ExpectedProcessed(j)
       /\ hr.pc = "fetch" => hr.callIndex <= 3

\* C9: with 120 pending records, BATCH_SIZE=50 and no limit, the invocations
\* report 50, 50, 20 and from the fourth on 0 rows processed, and every loop
\* of handleRun that was started ends.
C9_Scenario120 == [](C9_Inv) /\ ((Scenario120 /\ hr.pc = "fetch") ~> LoopEnded)

\* the fourth invocation reported 0 and the loop that made it has ended
C9_Witness ==
    /\ Scenario120
    /\ seen = <<50, 50, 20, 0>>
    /\ LoopEnded

\* result writes made so far, over all rows of the dataset
TotalWrites == Cardinality({<<p, i>> \in (DOMAIN writes) \X (1..MaxRuns * 2) : i <= writes[p]})

LimitedRun == hr.pc # "idle" /\ hr.initialLimit # NoLimit

C19_Inv ==
    LimitedRun =>
       /\ hr.initialLimit > 0
       /\ hr.totalProcessed <= hr.initialLimit
       /\ hr.pc = "fetch" =>
             /\ body[1].limit = hr.initialLimit - hr.totalProcessed
             /\ body[1].limit > 0
       /\ budget.runs = 1 => TotalWrites <= hr.initialLimit

C19_Step ==
    (LimitedRun /\ stage[1] = "done" /\ hr' # hr /\ hr'.pc # "idle") =>
        hr'.totalProcessed = hr.totalProcessed + resp[1].processed

\* C19: over one client run with a caller limit L > 0, every invocation of
\* /api/start is passed L minus the rows the previous invocations of the run
\* reported as processed, the run's total grows by what each response reports,
\* and neither that total nor the rows written ever exceed L.
C19_RemainingLimitForward == [](C19_Inv) /\ [][C19_Step]_vars

\* a run with limit 2 over three pending rows, one row per chunk: two
\* invocations, the second one passed limit 1, one row left pending
C19_Witness ==
    /\ LoopEnded
    /\ hr.initialLimit = 2
    /\ hr.callIndex = 1
    /\ hr.totalProcessed = 2
    /\ Len(seen) = 2
    /\ Len(readDatasetRows(sheet)) = 1

----------------------------------------------------------------------------
(* app/api/run-history/route.ts: GET and groupLogicalRuns; lib/sheets.ts:
   readRunHistory.  runLog[tab] holds the rows below the header row *)

MaxLog == 3

NoEpoch == -1
\* lines 22-26
toEpochMs(ts) == IF ts.kind = "iso" THEN ts.minute * 60 * 1000 ELSE NoEpoch

\* a < b on the strings: "" sorts first, digits sort before letters, ISO
\* strings sort as their instants
TextRank(ts) == CASE ts.kind = "empty" -> 0 [] ts.kind = "iso" -> 1 [] OTHER -> 2
StringLess(a, b) ==
    \/ TextRank(a) < TextRank(b)
    \/ a.kind = "iso" /\ b.kind = "iso" /\ a.minute < b.minute

\* lines 28-35
sameRunKeyNoModel(a, b) == a.sheetId = b.sheetId /\ a.tabName = b.tabName /\ a.mode = b.mode

sameRunKey(a, b) ==
    /\ a.sheetId = b.sheetId
    /\ a.tabName = b.tabName
    /\ a.mode = b.mode
    /\ a.model = b.model

\* lines 44-46: Array.prototype.sort is stable
InsertByTimestamp(sorted, r) ==
    LET later == {j \in 1..Len(sorted) : StringLess(r.timestamp, sorted[j].timestamp)}
        at == IF later = {} THEN Len(sorted) + 1
              ELSE CHOOSE j \in later : \A i \in later : j <= i
    IN  SubSeq(sorted, 1, at - 1) \o <<r>> \o SubSeq(sorted, at, Len(sorted))

KeepOrder(rs) == rs

RECURSIVE SortByTimestamp(_)
SortByTimestamp(rs) ==
    IF rs = <<>> THEN <<>>
    ELSE InsertByTimestamp(SortByTimestamp(SubSeq(rs, 1, Len(rs) - 1)), rs[Len(rs)])

\* lines 84-96 and 157-168: one bucket of a row added to the weighted sums
AddConfUnweighted(acc, avg, count) ==
    IF avg # NullAvg /\ count > 0
    THEN [sum |-> FracAdd(acc.sum, Frac(avg.sum, avg.n)), n |-> acc.n + count]
    ELSE acc

AddConf(acc, avg, count) ==
    IF avg # NullAvg /\ count > 0
    THEN [sum |-> FracAdd(acc.sum, Frac(avg.sum * count, avg.n)), n |-> acc.n + count]
    ELSE acc

\* lines 71-100
startGroup(r) ==
    [base |-> r, chunks |-> 1, endedAt |-> r.timestamp,
     rowsProcessed |-> r.rowsProcessed, count_same |-> r.count_same,
     count_diff |-> r.count_diff, count_unsure |-> r.count_unsure,
     duration_ms |-> r.duration_ms,
     conf_same |-> AddConf(NoAcc, r.avg_conf_same, r.count_same),
     conf_diff |-> AddConf(NoAcc, r.avg_conf_diff, r.count_diff),
     conf_unsure |-> AddConf(NoAcc, r.avg_conf_unsure, r.count_unsure),
     lastTsMs |-> toEpochMs(r.timestamp)]

\* lines 102-123
finalize(g) ==
    [timestamp |-> g.base.timestamp, sheetId |-> g.base.sheetId,
     tabName |-> g.base.tabName, mode |-> g.base.mode, model |-> g.base.model,
     rowsProcessed |-> g.rowsProcessed, count_same |-> g.count_same,
     count_diff |-> g.count_diff, count_unsure |-> g.count_unsure,
     avg_conf_same |-> Recombined(g.conf_same),
     avg_conf_diff |-> Recombined(g.conf_diff),
     avg_conf_unsure |-> Recombined(g.conf_unsure),
     duration_ms |-> g.duration_ms, chunks |-> g.chunks, endedAt |-> g.endedAt]

\* lines 134-138
withinGapUnparsedJoins(current, r, gapMs) ==
    LET rTsMs == toEpochMs(r.timestamp)
    IN  IF current.lastTsMs # NoEpoch /\ rTsMs # NoEpoch
        THEN rTsMs - current.lastTsMs <= gapMs ELSE TRUE

withinGap(current, r, gapMs) ==
    LET rTsMs == toEpochMs(r.timestamp)
        canTimeCompare == current.lastTsMs # NoEpoch /\ rTsMs # NoEpoch
    IN  IF canTimeCompare THEN rTsMs - current.lastTsMs <= gapMs ELSE FALSE

shouldMerge(current, r, gapMs) == sameRunKey(current.base, r) /\ withinGap(current, r, gapMs)

\* lines 146-168
MergeRowKeepsDuration(current, r) ==
    [current EXCEPT
        !.chunks = @ + 1, !.endedAt = r.timestamp, !.lastTsMs = toEpochMs(r.timestamp),
        !.rowsProcessed = @ + r.rowsProcessed, !.count_same = @ + r.count_same,
        !.count_diff = @ + r.count_diff, !.count_unsure = @ + r.count_unsure,
        !.conf_same = AddConf(@, r.avg_conf_same, r.count_same),
        !.conf_diff = AddConf(@, r.avg_conf_diff, r.count_diff),
        !.conf_unsure = AddConf(@, r.avg_conf_unsure, r.count_unsure)]

MergeRow(current, r) ==
    [current EXCEPT
        !.chunks = @ + 1, !.endedAt = r.timestamp, !.lastTsMs = toEpochMs(r.timestamp),
        !.rowsProcessed = @ + r.rowsProcessed, !.count_same = @ + r.count_same,
        !.count_diff = @ + r.count_diff, !.count_unsure = @ + r.count_unsure,
        !.duration_ms = @ + r.duration_ms,
        !.conf_same = AddConf(@, r.avg_conf_same, r.count_same),
        !.conf_diff = AddConf(@, r.avg_conf_diff, r.count_diff),
        !.conf_unsure = AddConf(@, r.avg_conf_unsure, r.count_unsure)]

\* lines 128-172: the loop from the i-th sorted row on
RECURSIVE GroupFrom(_, _, _, _, _)
GroupFrom(sorted, i, current, grouped, gapMs) ==
    IF i > Len(sorted) THEN Append(grouped, finalize(current))
    ELSE IF ~shouldMerge(current, sorted[i], gapMs)
    THEN GroupFrom(sorted, i + 1, startGroup(sorted[i]),
                   Append(grouped, finalize(current)), gapMs)
    ELSE GroupFrom(sorted, i + 1, MergeRow(current, sorted[i]), grouped, gapMs)

\* lines 37-173
groupLogicalRuns(rs, gapMs) ==
    IF rs = <<>> THEN <<>>
    ELSE LET sorted == SortByTimestamp(rs)
         IN  GroupFrom(sorted, 2, startGroup(sorted[1]), <<>>, gapMs)

\* line 209
GAP_MS == 5 * 60 * 1000

\* lib/sheets.ts 331: rows.slice(-limit); the cells hold the numbers and the
\* empty averages that appendRunLog wrote
readRunHistory(log, mode, limit) ==
    LET all == log[LogTab(mode)]
    IN  SubSeq(all, Max(1, Len(all) - limit + 1), Len(all))

\* route.ts 180, 194: limit = Math.max(1, Number(limitParam) || 10)
HistoryLimit(limitParam) ==
    LET n == NumberOf(limitParam)
    IN  IF limitParam # Undefined /\ n.finite /\ n.halves # 0
        THEN Max(1, n.halves \div 2) ELSE 10

\* GET /api/run-history arrives on slot k (lines 175-196)
GetRunHistory(k) ==
    /\ NoneInFlight
    /\ k = 1
    /\ \E mode \in Modes, limitParam \in {Undefined, "2"}, group \in {"logical", "chunks"} :
          /\ stage' = [stage EXCEPT ![k] = "history"]
          /\ body' = [body EXCEPT ![k] = [mode |-> mode, limit |-> HistoryLimit(limitParam),
                                          group |-> group]]
    /\ UNCHANGED <<storeVars, svc, cfg, pend, rows, batchVars, metrics, resp, hr,
                   histVars>>

\* readRunHistory returned (lines 196-219): the response goes out
GetRunHistoryRead(k) ==
    /\ stage[k] = "history"
    /\ LET read == readRunHistory(runLog, body[k].mode, body[k].limit)
       IN  resp' = [resp EXCEPT ![k] =
                       [status |-> 200, mode |-> body[k].mode, group |-> body[k].group,
                        rawRows |-> Len(read),
                        rows |-> IF body[k].group = "chunks" THEN read
                                 ELSE groupLogicalRuns(read, GAP_MS)]]
    /\ stage' = [stage EXCEPT ![k] = "done"]
    /\ UNCHANGED <<storeVars, svc, body, cfg, pend, rows, batchVars, metrics, hr,
                   histVars>>

\* readRunHistory rejects: the catch of lines 220-226 answers 500
GetRunHistoryFail(k) ==
    /\ stage[k] = "history"
    /\ resp' = [resp EXCEPT ![k] = [status |-> 500, error |-> "Sheets request failed"]]
    /\ stage' = [stage EXCEPT ![k] = "done"]
    /\ UNCHANGED <<storeVars, svc, body, cfg, pend, rows, batchVars, metrics, hr,
                   histVars>>

\* the client has read the response
GetRunHistoryReceive(k) ==
    /\ stage[k] = "done"
    /\ Release(k)
    /\ UNCHANGED <<storeVars, svc, cfg, hr, histVars>>

\* handleRun fed with the responses of a run whose chunks are the rows `log`
\* (App.tsx 278-357): the state with which the loop is entered, the loop over
\* the responses, and the aggregate
FreshRun(limit, parallel, mode) ==
    [pc |-> "fetch", running |-> TRUE, error |-> "", parallel |-> parallel,
     mode |-> mode, initialLimit |-> InitialLimit(limit),
     remaining |-> InitialLimit(limit), callIndex |-> 0, totalProcessed |-> 0,
     totalSame |-> 0, totalDiff |-> 0, totalUnsure |-> 0, confSame |-> NoAcc,
     confDiff |-> NoAcc, confUnsure |-> NoAcc, totalDurationMs |-> 0,
     firstTotalPendingBefore |-> -1, lastRun |-> NoRun]

RECURSIVE PendingFrom(_, _)
PendingFrom(log, i) ==
    IF i > Len(log) THEN 0 ELSE log[i].rowsProcessed + PendingFrom(log, i + 1)

ChunkResponse(log, i) ==
    OkResponse([mode |-> log[i].mode], PendingFrom(log, i), log[i].rowsProcessed,
               [count_same |-> log[i].count_same, count_diff |-> log[i].count_diff,
                count_unsure |-> log[i].count_unsure,
                avg_conf_same |-> log[i].avg_conf_same,
                avg_conf_diff |-> log[i].avg_conf_diff,
                avg_conf_unsure |-> log[i].avg_conf_unsure,
                duration_ms |-> log[i].duration_ms])

RECURSIVE RunOver(_, _, _)
RunOver(h, log, i) ==
    LET data == ChunkResponse(log, i)
        first == [h EXCEPT !.firstTotalPendingBefore =
                              IF @ = -1 THEN data.totalPendingBefore ELSE @]
        acc == IF data.processed <= 0 THEN first ELSE Accumulate(first, data)
    IN  IF Breaks(acc, data) \/ i = Len(log) \/ h.callIndex + 1 >= MAX_CALLS
        THEN [acc EXCEPT !.pc = "idle", !.running = FALSE,
                         !.lastRun = Aggregated(acc, data)]
        ELSE RunOver([acc EXCEPT !.callIndex = @ + 1], log, i + 1)

\* a run whose chunks were logged in "Runs - prod" has finished in the client
HandleRunOver ==
    /\ hr = IdleClient
    /\ runLog["Runs - prod"] # <<>>
    /\ hr' = RunOver(FreshRun(NoLimit, 1, "prod"), runLog["Runs - prod"], 1)
    /\ UNCHANGED <<storeVars, svc, stage, body, cfg, pend, rows, batchVars, metrics,
                   resp, histVars>>

----------------------------------------------------------------------------
(* Specification of the run history: a run log of up to MaxLog rows, read
   and grouped by GET /api/run-history *)

HistoryMetrics ==
    << [count_same |-> 2, avg_conf_same |-> [sum |-> 90, n |-> 1],
        count_diff |-> 1, avg_conf_diff |-> NullAvg,
        count_unsure |-> 0, avg_conf_unsure |-> NullAvg, duration_ms |-> 40],
       [count_same |-> 3, avg_conf_same |-> [sum |-> 70, n |-> 1],
        count_diff |-> 0, avg_conf_diff |-> [sum |-> 80, n |-> 1],
        count_unsure |-> 1, avg_conf_unsure |-> [sum |-> 50, n |-> 1],
        duration_ms |-> 60],
       [count_same |-> 1, avg_conf_same |-> NullAvg,
        count_diff |-> 2, avg_conf_diff |-> [sum |-> 85, n |-> 1],
        count_unsure |-> 0, avg_conf_unsure |-> NullAvg, duration_ms |-> 40] >>

HistoryModels == {"gpt-5-mini", "gpt-4.1"}
HistoryTimestamps == {Iso(0), Iso(1), Iso(6), Iso(12), BadTimestamp}

\* a row of a log tab; its metrics vary with its model and timestamp
HistoryRow(mode, model, ts) ==
    LET pick == ((ts.minute + (IF ts.kind = "iso" THEN 0 ELSE 1)
                     + (IF model = "gpt-5-mini" THEN 0 ELSE 1)) % 3) + 1
        m == HistoryMetrics[pick]
    IN  [timestamp |-> ts, sheetId |-> "sheet", tabName |-> "tab", mode |-> mode,
         model |-> model,
         rowsProcessed |-> m.count_same + m.count_diff + m.count_unsure,
         count_same |-> m.count_same, count_diff |-> m.count_diff,
         count_unsure |-> m.count_unsure, avg_conf_same |-> m.avg_conf_same,
         avg_conf_diff |-> m.avg_conf_diff, avg_conf_unsure |-> m.avg_conf_unsure,
         duration_ms |-> m.duration_ms]

HistoryRows == {HistoryRow("prod", model, ts) : model \in HistoryModels,
                                               ts \in HistoryTimestamps}

\* three chunks one minute apart and a fourth ten minutes later
ExampleLog ==
    << HistoryRow("prod", "gpt-5-mini", Iso(0)), HistoryRow("prod", "gpt-5-mini", Iso(1)),
       HistoryRow("prod", "gpt-5-mini", Iso(2)), HistoryRow("prod", "gpt-5-mini", Iso(12)) >>

HistoryLogs ==
    UNION {[1..n -> HistoryRows] : n \in 0..MaxLog} \cup {ExampleLog}

InitHistory ==
    /\ sheet = <<>>
    /\ config = ConfigOf(Undefined, Undefined)
    /\ svc = {Reply(COkSame)}
    /\ budget = NoBudget
    /\ \E log \in HistoryLogs :
          runLog = [t \in {"Runs - prod", "Runs - test"} |->
                       IF t = "Runs - prod" THEN log
                       ELSE <<HistoryRow("test", "gpt-5-mini", EmptyTimestamp)>>]
    /\ InitSlots

NextHistory ==
    \E k \in Slots :
       \/ GetRunHistory(k)
       \/ GetRunHistoryRead(k)
       \/ GetRunHistoryFail(k)
       \/ GetRunHistoryReceive(k)
       \/ HandleRunOver

SpecHistory == InitHistory /\ [][NextHistory]_vars

----------------------------------------------------------------------------
(* Claims on the run history (SpecHistory) *)

\* slot k holds the answer of a grouped read; the rows it read and their
\* order by timestamp
Grouped(k) == stage[k] = "done" /\ resp[k].status = 200 /\ resp[k].group = "logical"
HistoryInput(k) == readRunHistory(runLog, body[k].mode, body[k].limit)
\* the place of the i-th row in timestamp order, rows with equal timestamps
\* staying in the order they were read
PlaceOf(input, i) ==
    Cardinality({j \in 1..Len(input) :
                    \/ StringLess(input[j].timestamp, input[i].timestamp)
                    \/ /\ ~StringLess(input[i].timestamp, input[j].timestamp)
                       /\ j < i}) + 1
HistorySorted(k) ==
    LET input == HistoryInput(k)
    IN  [p \in 1..Len(input) |-> input[CHOOSE i \in 1..Len(input) : PlaceOf(input, i) = p]]

RECURSIVE ChunksBefore(_, _)
ChunksBefore(out, g) == IF g <= 1 THEN 0 ELSE out[g - 1].chunks + ChunksBefore(out, g - 1)

RECURSIVE SumField(_, _, _, _)
SumField(seq, a, b, f) == IF a > b THEN 0 ELSE seq[a][f] + SumField(seq, a + 1, b, f)

FirstOf(out, g) == ChunksBefore(out, g) + 1
LastOf(out, g) == ChunksBefore(out, g) + out[g].chunks

\* C12: the LogicalRuns returned for a list of rows tile the timestamp-sorted
\* list: each one is a non-empty contiguous range of it (it starts where the
\* one before ended, carries the first row's identity, the last row's
\* timestamp and the range's rows processed), and the chunks fields add up to
\* the number of rows, so every row is in exactly one LogicalRun.
C12_TotalPartition ==
    \A k \in Slots : Grouped(k) =>
       LET out == resp[k].rows
           sorted == HistorySorted(k)
       IN  /\ ChunksBefore(out, Len(out) + 1) = Len(sorted)
           /\ \A g \in 1..Len(out) :
                 /\ out[g].chunks >= 1
                 /\ LastOf(out, g) <= Len(sorted)
                 /\ out[g].timestamp = sorted[FirstOf(out, g)].timestamp
                 /\ out[g].model = sorted[FirstOf(out, g)].model
                 /\ out[g].endedAt = sorted[LastOf(out, g)].timestamp
                 /\ out[g].rowsProcessed =
                       SumField(sorted, FirstOf(out, g), LastOf(out, g), "rowsProcessed")

\* three rows that were not in timestamp order came back as a run of two
\* chunks and a run of one
C12_Witness ==
    /\ Grouped(1)
    /\ Len(HistoryInput(1)) = 3
    /\ HistoryInput(1) # HistorySorted(1)
    /\ Len(resp[1].rows) = 2
    /\ resp[1].rows[1].chunks = 2

\* the row r, next after prev in timestamp order, continues prev's run: same
\* (sheetId, tabName, mode, model), both timestamps are instants, and r is at
\* most five minutes after prev
SameTuple(a, b) ==
    <<a.sheetId, a.tabName, a.mode, a.model>> = <<b.sheetId, b.tabName, b.mode, b.model>>
IsInstant(ts) == ts.kind = "iso"
Continues(prev, r) ==
    /\ SameTuple(prev, r)
    /\ IsInstant(prev.timestamp) /\ IsInstant(r.timestamp)
    /\ r.timestamp.minute - prev.timestamp.minute <= 5

\* C13: a row joins the open group exactly when its tuple equals the group's
\* and its timestamp is at most gapMs (5 minutes) after the last merged
\* row's; otherwise it starts a new group: the LogicalRuns start at the first
\* row and at every row that does not continue the row before it, and
\* nowhere else, and their counts are the sums over their rows.  Three rows
\* with one key 60 s apart give one LogicalRun with chunks = 3; a fourth row
\* 10 minutes later starts the next one.
C13_JoinsIffKeyAndGap ==
    \A k \in Slots : Grouped(k) =>
       LET out == resp[k].rows
           sorted == HistorySorted(k)
       IN  /\ {FirstOf(out, g) : g \in 1..Len(out)} =
                 {i \in 1..Len(sorted) : i = 1 \/ ~Continues(sorted[i - 1], sorted[i])}
           /\ \A g \in 1..Len(out) : \A f \in {"count_same", "count_diff", "count_unsure"} :
                 out[g][f] = SumField(sorted, FirstOf(out, g), LastOf(out, g), f)
           /\ HistoryInput(k) = ExampleLog =>
                 Len(out) = 2 /\ out[1].chunks = 3 /\ out[2].chunks = 1

\* the example: three chunks a minute apart merged, the fourth apart
C13_Witness ==
    /\ Grouped(1)
    /\ HistoryInput(1) = ExampleLog
    /\ Len(resp[1].rows) = 2
    /\ resp[1].rows[1].chunks = 3
    /\ resp[1].rows[1].count_same =
          ExampleLog[1].count_same + ExampleLog[2].count_same + ExampleLog[3].count_same
    /\ resp[1].rows[2].timestamp = Iso(12)

\* C14: a row whose timestamp does not parse is a LogicalRun of its own with
\* chunks = 1, its own timestamps, counts, rows processed and duration; the
\* row after it starts another LogicalRun, whatever the keys; and the read
\* answers 200 unless the store itself failed.
C14_UnparsedTimestampAlone ==
    /\ \A k \in Slots : Grouped(k) =>
          LET out == resp[k].rows
              sorted == HistorySorted(k)
          IN  \A i \in 1..Len(sorted) : ~IsInstant(sorted[i].timestamp) =>
                 /\ \E g \in 1..Len(out) :
                       /\ FirstOf(out, g) = i
                       /\ out[g].chunks = 1
                       /\ out[g].timestamp = sorted[i].timestamp
                       /\ out[g].endedAt = sorted[i].timestamp
                       /\ \A f \in {"rowsProcessed", "count_same", "count_diff",
                                    "count_unsure", "duration_ms", "model"} :
                             out[g][f] = sorted[i][f]
                 /\ i < Len(sorted) => \E g \in 1..Len(out) : FirstOf(out, g) = i + 1
    /\ \A k \in Slots :
          stage[k] = "done" /\ resp[k].status # 200 =>
             resp[k].error = "Sheets request failed"

\* a dated row and two rows with an unparseable timestamp, all of one key:
\* three LogicalRuns of one chunk each
C14_Witness ==
    /\ Grouped(1)
    /\ LET sorted == HistorySorted(1)
       IN  /\ Len(sorted) = 3
           /\ sorted[1].timestamp = Iso(0)
           /\ sorted[2].timestamp = BadTimestamp
           /\ sorted[3].timestamp = BadTimestamp
           /\ \A i \in 1..3 : sorted[i].model = "gpt-5-mini"
    /\ Len(resp[1].rows) = 3
    /\ \A g \in 1..3 : resp[1].rows[g].chunks = 1

\* the recombined average of one verdict bucket over rows a..b of a list:
\* sum of avg_i * n_i over sum of n_i, over the rows whose average is not
\* null and whose count n_i is positive; null when there is no such row
RECURSIVE WeightedConf(_, _, _, _, _)
WeightedConf(seq, a, b, avgField, countField) ==
    IF a > b THEN [sum |-> Zero, n |-> 0]
    ELSE LET rest == WeightedConf(seq, a + 1, b, avgField, countField)
             avg == seq[a][avgField]
             n == seq[a][countField]
         IN  IF avg = NullAvg \/ n <= 0 THEN rest
             ELSE [sum |-> FracAdd(rest.sum, Frac(avg.sum * n, avg.n)), n |-> rest.n + n]
CombinedAvg(seq, a, b, avgField, countField) ==
    LET w == WeightedConf(seq, a, b, avgField, countField)
    IN  IF w.n = 0 THEN [null |-> TRUE, value |-> Zero]
        ELSE [null |-> FALSE, value |-> Frac(w.sum.num, w.sum.den * w.n)]
Buckets ==
    {<<"avg_conf_same", "count_same">>, <<"avg_conf_diff", "count_diff">>,
     <<"avg_conf_unsure", "count_unsure">>}
ClientRunDone == hr.pc = "idle" /\ hr # IdleClient /\ hr.lastRun # NoRun

\* C15: a LogicalRun and the aggregate of the client loop both carry the plain
\* sums of counts, rows processed and duration of their chunks, and for each
\* verdict bucket the average sum(avg_i * n_i) / sum(n_i) over the chunks whose
\* average is not null and whose count is positive, null when there is none;
\* (0.9, n=2) and (0.7, n=3) give 0.78 (averages are in hundredths: 78).
C15_WeightedRecombination ==
    /\ \A k \in Slots : Grouped(k) =>
          LET out == resp[k].rows
              sorted == HistorySorted(k)
          IN  \A g \in 1..Len(out) :
                 /\ \A f \in {"rowsProcessed", "count_same", "count_diff", "count_unsure",
                              "duration_ms"} :
                       out[g][f] = SumField(sorted, FirstOf(out, g), LastOf(out, g), f)
                 /\ \A b \in Buckets :
                       out[g][b[1]] =
                          CombinedAvg(sorted, FirstOf(out, g), LastOf(out, g), b[1], b[2])
    /\ ClientRunDone =>
          LET log == runLog["Runs - prod"]
              n == Len(log)
          IN  /\ hr.lastRun.processed = SumField(log, 1, n, "rowsProcessed")
              /\ hr.lastRun.count_same = SumField(log, 1, n, "count_same")
              /\ hr.lastRun.count_diff = SumField(log, 1, n, "count_diff")
              /\ hr.lastRun.count_unsure = SumField(log, 1, n, "count_unsure")
              /\ hr.lastRun.duration_ms = SumField(log, 1, n, "duration_ms")
              /\ \A b \in Buckets : hr.lastRun[b[1]] = CombinedAvg(log, 1, n, b[1], b[2])
    /\ CombinedAvg(ExampleLog, 1, 2, "avg_conf_same", "count_same") =
          [null |-> FALSE, value |-> Frac(78, 1)]

\* the two chunks (0.9, n=2) and (0.7, n=3) were recombined to 0.78 by the
\* client loop and by the grouped read; the DIFFERENT bucket, whose only
\* average comes with a count of 0, is null
C15_Witness ==
    /\ runLog["Runs - prod"] = SubSeq(ExampleLog, 1, 2)
    /\ ClientRunDone
    /\ hr.lastRun.avg_conf_same = [null |-> FALSE, value |-> Frac(78, 1)]
    /\ Grouped(1)
    /\ body[1].mode = "prod"
    /\ Len(resp[1].rows) = 1
    /\ resp[1].rows[1].avg_conf_same = [null |-> FALSE, value |-> Frac(78, 1)]
    /\ resp[1].rows[1].avg_conf_diff.null



ConservedFields == {"rowsProcessed", "count_same", "count_diff", "count_unsure", "duration_ms"}

\* C27: groupLogicalRuns conserves totals: rows processed, the three counts
\* and the duration add up over the LogicalRuns to what they add up to over
\* the rows read; every LogicalRun carries the timestamp of its first row and,
\* as endedAt, that of its last row; and the LogicalRuns come in the order of
\* their first rows.
C27_TotalsConserved ==
    \A k \in Slots : Grouped(k) =>
       LET out == resp[k].rows
           input == HistoryInput(k)
           sorted == HistorySorted(k)
       IN  /\ \A f \in ConservedFields :
                 SumField(out, 1, Len(out), f) = SumField(input, 1, Len(input), f)
           /\ \A g \in 1..Len(out) :
                 /\ out[g].timestamp = sorted[FirstOf(out, g)].timestamp
                 /\ out[g].endedAt = sorted[LastOf(out, g)].timestamp
           /\ \A g, h \in 1..Len(out) :
                 g < h => ~StringLess(out[h].timestamp, out[g].timestamp)

\* three rows read out of timestamp order and grouped into two LogicalRuns,
\* one of them made of two chunks
C27_Witness ==
    \E k \in Slots :
       /\ Grouped(k)
       /\ Len(HistoryInput(k)) = 3
       /\ StringLess(HistoryInput(k)[2].timestamp, HistoryInput(k)[1].timestamp)
       /\ Len(resp[k].rows) = 2
       /\ \E g \in 1..2 : resp[k].rows[g].chunks = 2

----------------------------------------------------------------------------
(* Specification of /api/start over the texts a Config cell may hold and
   the replies the classification service may give *)

\* texts of the BATCH_SIZE and MAX_RETRIES cells: missing, empty, not a
\* number, not finite, negative, zero, fractions, padded, above the clamp
BatchSizeTexts ==
    {Undefined, "", "abc", "Infinity", "0", "-1", "0.5", "1", "1.5", "2", " 2 ", "50"}
RetryTexts ==
    {Undefined, "", "abc", "Infinity", "-1", "0", "0.5", "1", "1.5", "2", "3", "7"}

InitConfig ==
    /\ sheet = [p \in 1..MaxRows |-> EmptyCells]
    /\ \/ /\ \E b \in BatchSizeTexts : config = ConfigOf(b, Undefined)
          /\ svc = {Reply(COkDiff)}
       \/ /\ \E r \in RetryTexts : config = ConfigOf("1", r)
          /\ svc \in {{Raise(E429)}, {Raise(E400)}, {Empty, Reply(COkSame)}}
       \/ /\ config = ConfigOf(Undefined, Undefined)
          /\ svc \in Profiles
    /\ budget = [NoBudget EXCEPT !.calls = MaxCalls - 1, !.faults = MaxFaults - 1]
    /\ InitIdle

SpecConfig == InitConfig /\ [][NextApi]_vars

----------------------------------------------------------------------------
(* Claims on the Config values (SpecConfig) *)

\* the chunk size each text of the BATCH_SIZE cell stands for
ExpectedChunkSize(raw) ==
    CASE raw \in {"1", "1.5"} -> 1
      [] raw \in {"2", " 2 "} -> 2
      [] raw = "7" -> 7
      [] OTHER -> 50

\* C21: the effective chunk size is a positive integer: 50 for a BATCH_SIZE
\* that is missing, empty, not a number, not finite, <= 0 or below 1, the
\* floor of the value otherwise; the rows given to the batch are the pending
\* rows under the caller's limit, cut to that size.
C21_ChunkSizePositive ==
    \A k \in Slots :
        LET size == ChunkSize(cfg[k])
        IN  /\ size \in Nat \ {0}
            /\ size = ExpectedChunkSize(cfg[k]["BATCH_SIZE"])
            /\ Len(rows[k]) = Min(size, Len(ApplyLimit(pend[k], body[k].limit)))

\* BATCH_SIZE 0.5 floors to 0: the chunk size is 50 and all pending rows of
\* the dataset are processed in one invocation
C21_Witness ==
    /\ cfg[1]["BATCH_SIZE"] = "0.5"
    /\ stage[1] = "done"
    /\ resp[1].status = 200
    /\ resp[1].totalPendingBefore = MaxRows
    /\ resp[1].processed = MaxRows


\* the retry budget each text of the MAX_RETRIES cell stands for, in halves
ExpectedRetryHalves(raw) ==
    CASE raw \in {"-1", "0"} -> 0
      [] raw = "0.5" -> 1
      [] raw = "1.5" -> 3
      [] raw = "2" -> 4
      [] raw \in {"3", "7"} -> 6
      [] OTHER -> 2

\* attempts made so far for the rows of slot k: finished rows and rows in
\* progress
AttemptCounts(k) ==
    {trace[k][j].calls : j \in 1..Len(trace[k])} \cup {wk[k][w].calls : w \in Busy(k)}

\* C23: the retry budget is MAX_RETRIES clamped to [0,3], 1 when the key is
\* missing, empty or not a finite number; no row is attempted more than
\* budget + 1 times, hence never more than 4 times, and with MAX_RETRIES=0
\* every row is attempted exactly once.
C23_RetryBudgetClamped ==
    \A k \in Slots :
        LET h == MaxRetriesHalves(cfg[k])
        IN  /\ h = ExpectedRetryHalves(cfg[k]["MAX_RETRIES"])
            /\ h \in 0..6
            /\ \A n \in AttemptCounts(k) : n >= 1 /\ 2 * (n - 1) <= h /\ n <= 4
            /\ cfg[k]["MAX_RETRIES"] = "0" => \A n \in AttemptCounts(k) : n = 1

\* MAX_RETRIES=7 counts as 3: a row gave up after four attempts that all hit
\* the rate limit
C23_Witness ==
    /\ cfg[1]["MAX_RETRIES"] = "7"
    /\ \E j \in 1..Len(trace[1]) :
          /\ trace[1][j].path = "error"
          /\ trace[1][j].err = E429
          /\ trace[1][j].calls = 4


CountSum(m) == m.count_same + m.count_diff + m.count_unsure

\* C29: every result carries one of the verdicts SAME, DIFFERENT, UNSURE; the
\* three counts of a chunk's metrics add up to the number of its results,
\* which is the number of rows of the chunk; and the processed count of the
\* response and of the run-log row is that sum.
C29_CountsCoverResults ==
    /\ \A k \in Slots :
          /\ \A j \in 1..Len(updates[k]) : updates[k][j].verdict \in Verdicts
          /\ stage[k] \in {"write", "accuracy", "log"} =>
                /\ CountSum(metrics[k]) = Len(updates[k])
                /\ Len(updates[k]) = Len(rows[k])
          /\ (stage[k] = "done" /\ resp[k].status = 200) =>
                /\ resp[k].processed = CountSum(resp[k].metrics)
                /\ resp[k].processed = Len(rows[k])
    /\ \A tab \in DOMAIN runLog : \A j \in 1..Len(runLog[tab]) :
          /\ runLog[tab][j].rowsProcessed = CountSum(runLog[tab][j])
          /\ runLog[tab][j].rowsProcessed > 0

\* a chunk of three rows answered in lower-case JSON and in plain text: the
\* results are fallback UNSURE and heuristic DIFFERENT, and they are all counted
C29_Witness ==
    /\ stage[1] = "done"
    /\ resp[1].status = 200
    /\ resp[1].processed = 3
    /\ resp[1].metrics.count_diff >= 1
    /\ resp[1].metrics.count_unsure >= 1
    /\ svc = {Reply(CJsonLower), Reply(CTextHeur)}
    /\ LogLength = 1

----------------------------------------------------------------------------
(* Specification of /api/start invocations that overlap in time: every
   request slot of the server may hold an invocation *)

\* an HTTP client posts to /api/start while other invocations may be running
OverlapCall(k) ==
    /\ stage[k] = "idle"
    /\ \A j \in Slots : j < k => stage[j] # "idle"
    /\ budget.calls < MaxCalls
    /\ \E mode \in Modes : Invoke(k, [limit |-> NoLimit, parallel |-> 1, mode |-> mode])
    /\ budget' = [budget EXCEPT !.calls = @ + 1]
    /\ UNCHANGED <<storeVars, svc, cfg, pend, rows, batchVars, metrics, hr, writes,
                   seen>>

InitOverlap ==
    /\ sheet = [p \in 1..MaxRows |-> EmptyCells]
    /\ config = ConfigOf("1", Undefined)
    /\ svc = {Reply(COkDiff), Empty}
    /\ budget = [NoBudget EXCEPT !.calls = MaxCalls - 2, !.faults = MaxFaults - 1]
    /\ InitIdle

NextOverlap ==
    \E k \in Slots :
       \/ OverlapCall(k)
       \/ PostStep(k)
       \/ DirectReceive(k)

SpecOverlap == InitOverlap /\ [][NextOverlap]_vars

----------------------------------------------------------------------------
(* Claims on overlapping invocations (SpecOverlap) *)

\* slot k has planned its chunk and not yet answered
Classifying(k) == stage[k] \in {"batch", "write", "accuracy", "log"}

\* C25 as stated: also when invocations overlap, no record is in the chunk of
\* two invocations at once and no record is the target of two result writes.
C25_NoDoubleProcessing ==
    /\ \A p \in DOMAIN writes : writes[p] <= 1
    /\ \A j, k \in Slots :
          (j # k /\ Classifying(j) /\ Classifying(k)) =>
             RowIndexesOf(rows[j]) \cap RowIndexesOf(rows[k]) = {}


----------------------------------------------------------------------------
(* Specification of one client run followed by reads of its run history:
   chunks of two rows whose results partly carry no confidence *)

InitRecombine ==
    /\ sheet = [p \in 1..MaxRows |-> EmptyCells]
    /\ config = ConfigOf("2", Undefined)
    /\ svc = {Reply(COkUnsureFenced), Reply(CTextHeurOne), Empty}
    /\ budget = [NoBudget EXCEPT !.runs = MaxRuns - 1, !.faults = MaxFaults - 1,
                                 !.scenario = "mixed confidence",
                                 !.limits = {NoLimit}, !.parallels = {1},
                                 !.modes = Modes]
    /\ InitIdle

\* the history is fetched when no run is posting chunks (reloadHistory)
NextRecombine ==
    \/ NextRun
    \/ \E k \in Slots :
          \/ hr.pc # "fetch" /\ GetRunHistory(k)
          \/ hr.pc # "fetch" /\ GetRunHistoryRead(k)
          \/ hr.pc # "fetch" /\ GetRunHistoryFail(k)
          \/ hr.pc # "fetch" /\ GetRunHistoryReceive(k)

SpecRecombine == InitRecombine /\ [][NextRecombine]_vars

----------------------------------------------------------------------------
(* Claims on the two recombinations (SpecRecombine) *)

\* the results stored in the dataset, as one chunk, and the metrics one
\* runLlmMatchBatch call would report for them
AllResults ==
    LET ps == {p \in DOMAIN sheet : sheet[p].O # ""}
    IN  [j \in 1..Cardinality(ps) |->
            LET p == CHOOSE q \in ps : Cardinality({x \in ps : x <= q}) = j
            IN  [verdict |-> sheet[p].O, notes |-> sheet[p].P]]
SingleChunkAverage(verdict) ==
    LET a == Average(Bucket(AllResults, verdict))
    IN  IF a = NullAvg THEN [null |-> TRUE, value |-> Zero]
        ELSE [null |-> FALSE, value |-> Frac(a.sum, a.n)]

\* the client loop has ended and reported the aggregate of its chunks
RunReported == hr.pc = "wrapup" /\ hr.lastRun # NoRun

\* C26 as stated: for every verdict bucket the recombined average of a run
\* is the mean of the confidences of all confidence-bearing results of the
\* bucket over its chunks, the value a single chunk holding all those results
\* would report.
C26_RecombinedIsTrueMean ==
    RunReported =>
       /\ hr.lastRun.avg_conf_same = SingleChunkAverage("SAME")
       /\ hr.lastRun.avg_conf_diff = SingleChunkAverage("DIFFERENT")
       /\ hr.lastRun.avg_conf_unsure = SingleChunkAverage("UNSURE")


\* slot k holds the grouped history of the tab the run logged to, read in full
HistoryOfRun(k) ==
    /\ RunReported
    /\ Grouped(k)
    /\ resp[k].mode = hr.lastRun.mode
    /\ resp[k].rawRows = Len(runLog[LogTab(hr.lastRun.mode)])

\* invocations of the run that processed at least one row
ProcessingCalls == Cardinality({j \in 1..Len(seen) : seen[j] > 0})

----------------------------------------------------------------------------
(* Specification of the run driver whose calls all return: the scenarios of
   SpecRunLive and one run over a dataset of more than MAX_CALLS chunks *)

InitRunCap ==
    /\ sheet = [p \in 1..(MAX_CALLS + 1) |-> EmptyCells]
    /\ config = ConfigOf("1", Undefined)
    /\ svc = {Reply(COkDiff)}
    /\ budget = [NoBudget EXCEPT !.faults = MaxFaults, !.runs = MaxRuns - 1,
                                 !.scenario = "long", !.limits = {NoLimit},
                                 !.parallels = {1}, !.modes = {"prod"}]
    /\ InitIdle

InitRunTerminates == InitRunLive \/ InitRunCap

SpecRunTerminates == InitRunTerminates /\ [][NextRun]_vars /\ WF_vars(NextRun)

----------------------------------------------------------------------------
(* Claims on the termination of the run driver (SpecRunTerminates) *)

\* the response in slot 1 makes the loop stop
StopsLoop(data) ==
    \/ data.status # 200
    \/ data.processed <= 0
    \/ hr.remaining # NoLimit /\ hr.remaining - data.processed <= 0
    \/ data.processed >= data.totalPendingBefore

C30_Inv ==
    /\ hr.pc = "fetch" => hr.running /\ hr.callIndex < MAX_CALLS
    /\ hr.pc = "idle" => ~hr.running

C30_Step ==
    (hr.pc = "fetch" /\ hr' # hr) =>
       /\ stage[1] = "done"
       /\ StopsLoop(resp[1]) => hr'.pc # "fetch"
       /\ resp[1].status # 200 => hr'.pc = "idle" /\ hr'.error # ""
       /\ hr'.pc = "fetch" => hr'.callIndex = hr.callIndex + 1

\* C30: when every call returns, handleRun terminates: a run in progress is
\* always followed by a state with the running flag cleared; the loop makes
\* at most MAX_CALLS = 200 calls; it leaves at the first response that is an
\* error, reports no row processed, uses up the limit, or reports at least as
\* many rows processed as were pending; and the flag is cleared when the run
\* is over, also after an error.
C30_RunTerminates ==
    /\ [](C30_Inv)
    /\ [][C30_Step]_vars
    /\ (hr.running ~> ~hr.running)

\* the run over MAX_CALLS + 1 one-row chunks is over after 200 calls, with
\* one row left pending and the running flag cleared
C30_Witness ==
    /\ budget.scenario = "long"
    /\ hr.pc = "idle"
    /\ ~hr.running
    /\ Len(seen) = MAX_CALLS
    /\ Len(readDatasetRows(sheet)) = 1

====
